---- MODULE Spec2Model ----
(***************************************************************************)
(* Verification model of the keyword monitor's fetch layer:                *)
(*   - ProxyPool (src/src/anti_spider.py): proxy rotation, failure         *)
(*     counting and cooldown, used by concurrent make_request callers;     *)
(*   - SearchExecutor (src/src/search_executor.py): the sequential,        *)
(*     worker-pool and async execution modes and the stop signal.          *)
(* Each component has its own specification (SpecPool, SpecExec); the      *)
(* variables of the other component stay unchanged.                        *)
(***************************************************************************)
EXTENDS Integers, Sequences, FiniteSets, TLC

\* ------------------------------------------------------------------------
\* Program constants
\* ------------------------------------------------------------------------
\* ProxyPool.__init__: self.max_failures = 3
max_failures == 3
\* ProxyPool.__init__: self.cooldown_minutes = 10
cooldown_minutes == 10

\* ------------------------------------------------------------------------
\* Bounds of the model
\* ------------------------------------------------------------------------
\* largest number of proxies in the pool (the pool may also be empty)
MaxProxies == 2
\* number of concurrent make_request callers
NumCallers == 2
\* the clock runs from 0 to MaxTime minutes, in steps of TickMinutes
MaxTime == 20
TickMinutes == 5
\* response times reported by mark_proxy_success are 1..MaxLatency
MaxLatency == 1
\* the history counter of consecutive failures saturates here
MaxConsec == 4

\* Optional[ProxyInfo]: the value None, no proxy (the proxies are 0, 1, ...)
None == -1
Callers == 1..NumCallers

VARIABLES
    \* ---- ProxyPool ----
    nproxies,        \* len(self.proxies); the proxies are 0..nproxies-1
    current_index,   \* self.current_index
    failure_count,   \* ProxyInfo.failure_count, per proxy
    is_working,      \* ProxyInfo.is_working, per proxy
    last_used,       \* ProxyInfo.last_used, per proxy (minutes)
    response_time,   \* ProxyInfo.response_time, per proxy
    now,             \* datetime.now(), in minutes
    proxy_info,      \* per caller: the proxy its request in flight uses
    \* ---- history of the pool (not program state) ----
    consec,          \* per proxy: failure reports since the last success report
    streak,          \* per proxy: failure reports since the last success report or cooldown reset
    last,            \* the last pool operation: its name, proxy and the proxies its scan examined
    cooled           \* per proxy: the counter was at the threshold when the last scan examined it after the cooldown

poolVars == <<nproxies, current_index, failure_count, is_working, last_used,
              response_time, now, proxy_info, consec, streak, last, cooled>>

VARIABLES
    \* ---- the endpoint (deterministic: fixed per query and language) ----
    reply,
    \* ---- SearchExecutor ----
    mode,            \* which batch method is running, or "idle"
    pc,              \* position of the batch method
    should_stop,     \* self.should_stop
    is_running,      \* self.is_running
    results,         \* the local results of the batch: its keys and values
    completed,       \* the local counter completed (parallel and async)
    i,               \* sequential: index of the current query
    tpc, tq, tlang, tacc,   \* per thread: execute_single_query's position, query, language, results
    queue,           \* the work queue of the thread pool
    future,          \* per query: state of its future
    fres,            \* per query: the result of its future
    yielded,         \* futures as_completed has yielded
    apc, alang, aacc, aret, \* per query: the coroutine execute_single_async
    sem,             \* value of the asyncio.Semaphore
    stats,           \* GoogleSuggestAPI.stats
    wait_calls,      \* number of calls of RequestDelayManager.wait()
    \* ---- history of the executor (not program state) ----
    sent,            \* per query and language: HTTP requests sent for it in this batch
    dispatched,      \* queries a thread or coroutine has started to execute in this batch
    stop_called,     \* stop_execution() was called since the last batch ended
    stop_during,     \* stop_execution() was called since this batch began
    stop_disp,       \* the queries that were dispatched when it was called
    cut,             \* this batch saw the stop signal or an interrupt
    out,             \* per mode: the result map its batch returned
    ran,             \* per mode: "clean" once a batch of the mode ran to its end, else "no"
    send_waits,      \* value of wait_calls when the last request was sent
    progress         \* the calls of progress_callback made in this batch, in order

execVars == <<reply, mode, pc, should_stop, is_running, results, completed, i,
              tpc, tq, tlang, tacc, queue, future, fres, yielded,
              apc, alang, aacc, aret, sem, stats, wait_calls,
              sent, dispatched, stop_called, stop_during, stop_disp, cut, out, ran, send_waits,
              progress>>

VARIABLES
    \* ---- RequestDelayManager (seconds in units of 1/Scale) ----
    base_delay,            \* self.base_delay
    dynamic_delay,         \* self.dynamic_delay
    current_delay,         \* self.current_delay
    consecutive_failures,  \* self.consecutive_failures
    \* ---- the threads that report an outcome through make_request ----
    rpc,                   \* per thread: its position in on_success / on_failure
    routcome,              \* per thread: the outcome of its request
    rcf, rmin, rmax,       \* per thread: the values it has read or computed
    \* ---- history of the delay manager (not program state) ----
    nfail,                 \* number of on_failure calls begun
    nsuccess,              \* number of on_success calls begun, counted up to MaxSucc
    ideal_delay,           \* the window were every call made in one step
    dlast                  \* the last call made in one step and the window before it

delayVars == <<base_delay, dynamic_delay, current_delay, consecutive_failures,
               rpc, routcome, rcf, rmin, rmax, nfail, nsuccess, ideal_delay, dlast>>

VARIABLES
    \* ---- KeywordMonitor and the data directory ----
    keywords,        \* the keywords this monitor is run for
    today,           \* the current date
    snapshots,       \* per (date, file name): the snapshot file
    changes,         \* per (date, file name): the change file
    \* ---- the run_single_keyword call in progress ----
    run_pc,          \* its position
    run_seed,        \* main_keyword
    run_results,     \* results
    run_date,        \* keyword_data.execution_date
    run_cmp,         \* comparison_result
    run_ret,         \* its return value
    \* ---- history of the run (not program state) ----
    run_fetched,     \* requests were sent in this run
    wrote_snapshot,  \* this run has written to a snapshot file
    wrote_change,    \* this run has written a change file
    run_load         \* how the load of the previous day's snapshot ended

runVars == <<keywords, today, snapshots, changes, run_pc, run_seed, run_results, run_date,
             run_cmp, run_ret, run_fetched, wrote_snapshot, wrote_change, run_load>>

\* ---- single calls of operations: arguments and return values ----
VARIABLES
    cmp_call,        \* a call of compare_keyword_data
    rate_call,       \* the computation of a change rate
    gen_call,        \* a QueryGenerator and the calls made on it
    counters         \* the pool workers inside GoogleSuggestAPI.search_suggestions

\* compare_keyword_data: current_data, previous_data, the ComparisonResult
\* returned, and whether it has returned
cmp_current == cmp_call.current
cmp_previous == cmp_call.previous
cmp_result == cmp_call.result
cmp_done == cmp_call.done
\* the change rate: (new count, disappeared count, total_previous),
\* whether it has been computed, and the rate in hundredths of a percent
rate_args == rate_call.args
rate_done == rate_call.done
rate_result == rate_call.result
\* QueryGenerator: main_keyword, search_settings; generate_all_queries has
\* returned, its queries before deduplication, the list it returned;
\* get_query_statistics has returned, the dict it returned
gen_seed == gen_call.seed
gen_settings == gen_call.settings
gen_called == gen_call.called
gen_queries == gen_call.queries
gen_result == gen_call.result
stats_called == gen_call.stats_called
gen_stats == gen_call.stats
\* per worker: its position in search_suggestions, the counter value it
\* has read, len(suggestions) of its request; the number of
\* search_suggestions calls made
spc == counters.pc
sload == counters.load
sfound == counters.found
ncalls == counters.ncalls

callVars == <<cmp_call, rate_call, gen_call, counters>>

\* the executor's variables other than the counters
execButStats == <<reply, mode, pc, should_stop, is_running, results, completed, i,
                  tpc, tq, tlang, tacc, queue, future, fres, yielded,
                  apc, alang, aacc, aret, sem, wait_calls,
                  sent, dispatched, stop_called, stop_during, stop_disp, cut, out, ran,
                  send_waits, progress>>

vars == <<poolVars, execVars, delayVars, runVars, callVars>>

\* what the actions of one component leave alone
outsidePool == <<execVars, delayVars, runVars, callVars>>
outsideExec == <<poolVars, delayVars, runVars, callVars>>
outsideDelay == <<poolVars, execVars, runVars, callVars>>
outsideRun == <<poolVars, execVars, delayVars, callVars>>
outsideCalls == <<poolVars, execVars, delayVars, runVars>>
outsideCounters == <<poolVars, execButStats, delayVars, runVars, cmp_call, rate_call, gen_call>>

Proxies == 0..(nproxies - 1)

Min(a, b) == IF a < b THEN a ELSE b

\* ------------------------------------------------------------------------
\* ProxyPool
\* ------------------------------------------------------------------------

\* ProxyPool._is_proxy_available(proxy) at time t, on the counters fc:
\* the answer and the counters it leaves behind.
NoResetAvailable(p, fc, t) ==
    IF fc[p] >= max_failures
    THEN IF t - last_used[p] < cooldown_minutes
         THEN [avail |-> FALSE, fc |-> fc]
         ELSE [avail |-> is_working[p], fc |-> fc]
    ELSE [avail |-> is_working[p], fc |-> fc]

_is_proxy_available(p, fc, t) ==
    IF fc[p] >= max_failures
    THEN IF t - last_used[p] < cooldown_minutes
         THEN [avail |-> FALSE, fc |-> fc]
         ELSE [avail |-> is_working[p], fc |-> [fc EXCEPT ![p] = 0]]
    ELSE [avail |-> is_working[p], fc |-> fc]

\* The scan of get_working_proxy: k iterations left, idx the current index,
\* fc the counters so far, seen the proxies examined so far.
\* (a scan that returns the proxy at the index without the availability test)
ScanUnchecked(k, idx, fc, seen) ==
    IF k = 0
    THEN [proxy |-> None, idx |-> idx, fc |-> fc, seen |-> seen]
    ELSE LET r == _is_proxy_available(idx, fc, now)
         IN  [proxy |-> idx, idx |-> (idx + 1) % nproxies, fc |-> r.fc,
              seen |-> seen \cup {idx}]

RECURSIVE ScanProxies(_, _, _, _)
ScanProxies(k, idx, fc, seen) ==
    IF k = 0
    THEN [proxy |-> None, idx |-> idx, fc |-> fc, seen |-> seen]
    ELSE LET r    == _is_proxy_available(idx, fc, now)
             nidx == (idx + 1) % nproxies
         IN  IF r.avail
             THEN [proxy |-> idx, idx |-> nidx, fc |-> r.fc, seen |-> seen \cup {idx}]
             ELSE ScanProxies(k - 1, nidx, r.fc, seen \cup {idx})

\* ProxyPool.get_working_proxy(), called by caller c (prepare_request)
get_working_proxy(c) ==
    /\ proxy_info[c] = None
    /\ IF nproxies = 0
       THEN /\ last' = [op |-> "get", proxy |-> None, seen |-> {}]
            /\ UNCHANGED <<current_index, failure_count, last_used, streak, cooled, proxy_info>>
       ELSE LET s == ScanProxies(nproxies, current_index, failure_count, {})
            IN  /\ current_index' = s.idx
                /\ failure_count' = s.fc
                /\ streak' = [p \in Proxies |-> IF s.fc[p] = failure_count[p] THEN streak[p] ELSE 0]
                /\ cooled' = [p \in Proxies |->
                                 /\ p \in s.seen
                                 /\ failure_count[p] >= max_failures
                                 /\ now - last_used[p] >= cooldown_minutes]
                /\ last_used' = IF s.proxy = None THEN last_used
                                ELSE [last_used EXCEPT ![s.proxy] = now]
                /\ proxy_info' = [proxy_info EXCEPT ![c] = s.proxy]
                /\ last' = [op |-> "get", proxy |-> s.proxy, seen |-> s.seen]
    /\ UNCHANGED <<nproxies, is_working, response_time, now, consec>>
    /\ UNCHANGED outsidePool

\* proxy.is_working after mark_proxy_failed has incremented the counter to n
OffByOneWorking(n) == n <= max_failures

WorkingAfterFailure(n) == n < max_failures

\* ProxyPool.mark_proxy_failed(proxy), reported by the caller c that used it
mark_proxy_failed(c) ==
    /\ proxy_info[c] # None
    /\ LET p == proxy_info[c]
       IN  /\ failure_count' = [failure_count EXCEPT ![p] = @ + 1]
           /\ is_working' = [is_working EXCEPT ![p] = WorkingAfterFailure(failure_count[p] + 1)]
           /\ consec' = [consec EXCEPT ![p] = Min(@ + 1, MaxConsec)]
           /\ streak' = [streak EXCEPT ![p] = Min(@ + 1, MaxConsec)]
           /\ last' = [op |-> "failed", proxy |-> p, seen |-> {}]
    /\ proxy_info' = [proxy_info EXCEPT ![c] = None]
    /\ UNCHANGED <<nproxies, current_index, last_used, response_time, now, cooled>>
    /\ UNCHANGED outsidePool

\* the fields mark_proxy_success writes
AfterSuccess(n, w) == [failure_count |-> 0, is_working |-> TRUE]

\* ProxyPool.mark_proxy_success(proxy, response_time), reported by caller c
mark_proxy_success(c) ==
    /\ proxy_info[c] # None
    /\ \E rt \in 1..MaxLatency :
         LET p == proxy_info[c]
             a == AfterSuccess(failure_count[p], is_working[p])
         IN  /\ failure_count' = [failure_count EXCEPT ![p] = a.failure_count]
             /\ is_working' = [is_working EXCEPT ![p] = a.is_working]
             /\ response_time' = [response_time EXCEPT ![p] = rt]
             /\ last_used' = [last_used EXCEPT ![p] = now]
             /\ consec' = [consec EXCEPT ![p] = 0]
             /\ streak' = [streak EXCEPT ![p] = 0]
             /\ last' = [op |-> "success", proxy |-> p, seen |-> {}]
    /\ proxy_info' = [proxy_info EXCEPT ![c] = None]
    /\ UNCHANGED <<nproxies, current_index, now, cooled>>
    /\ UNCHANGED outsidePool

\* Time passes.
Tick ==
    /\ now + TickMinutes <= MaxTime
    /\ now' = now + TickMinutes
    /\ last' = [op |-> "tick", proxy |-> None, seen |-> {}]
    /\ UNCHANGED <<nproxies, current_index, failure_count, is_working, last_used,
                   response_time, proxy_info, consec, streak, cooled>>
    /\ UNCHANGED outsidePool

\* ProxyPool.__init__ and ProxyInfo.__post_init__
InitPoolWith(n) ==
    /\ nproxies = n
    /\ current_index = 0
    /\ failure_count = [p \in Proxies |-> 0]
    /\ is_working = [p \in Proxies |-> TRUE]
    /\ last_used = [p \in Proxies |-> 0]
    /\ response_time = [p \in Proxies |-> 0]
    /\ now = 0
    /\ proxy_info = [c \in Callers |-> None]
    /\ consec = [p \in Proxies |-> 0]
    /\ streak = [p \in Proxies |-> 0]
    /\ cooled = [p \in Proxies |-> FALSE]
    /\ last = [op |-> "init", proxy |-> None, seen |-> {}]

NextPool ==
    \/ \E c \in Callers : get_working_proxy(c)
    \/ \E c \in Callers : mark_proxy_failed(c)
    \/ \E c \in Callers : mark_proxy_success(c)
    \/ Tick


\* ------------------------------------------------------------------------
\* SearchExecutor
\* ------------------------------------------------------------------------
\* Bounds of the executor model
\* number of queries of a batch (the queries are 1..NumQueries, all distinct)
NumQueries == 2
\* len(self.languages)
NumLangs == 1
\* max_workers of execute_queries_parallel
NumWorkers == 2
\* concurrent_limit of execute_queries_async
ConcurrentLimit == 1

Queries == 1..NumQueries
Langs == 1..NumLangs
\* thread 0 is the main thread (it runs execute_single_query in sequential
\* mode), threads 1..NumWorkers are the workers of the thread pool
Workers == 1..NumWorkers
Threads == 0..NumWorkers
Modes == {"sequential", "parallel", "async"}

\* Entries of the suggestion list of a response; NonStrings stand for the
\* JSON values that are not strings.
NonStrings == {"<0>"}
\* What the endpoint answers: a status and, for a 200, the parsed JSON body:
\* wellformed says whether it is an array of more than one element whose
\* second element is a list, data is that list.
Replies ==
    { [status |-> 500, wellformed |-> FALSE, data |-> <<>>],
      [status |-> 200, wellformed |-> FALSE, data |-> <<>>],
      [status |-> 200, wellformed |-> TRUE,  data |-> <<"a", "a">>],
      [status |-> 200, wellformed |-> TRUE,  data |-> <<"b", "<0>", "a">>] }

Range(f) == {f[x] : x \in DOMAIN f}

\* GoogleSuggestAPI._get_suggestions_chrome: the suggestions of a response
_get_suggestions_chrome(r) ==
    IF r.status = 200 /\ r.wellformed
    THEN SelectSeq(r.data, LAMBDA e : e \notin NonStrings)
    ELSE <<>>

\* execute_query_batch, lines 250-256: remove duplicates, keep the order
RECURSIVE UniqueInOrder(_, _)
UniqueInOrder(s, seen) ==
    IF s = <<>> THEN <<>>
    ELSE IF Head(s) \in seen THEN UniqueInOrder(Tail(s), seen)
         ELSE <<Head(s)>> \o UniqueInOrder(Tail(s), seen \cup {Head(s)})

NoResults == [keys |-> {}, val |-> [q \in Queries |-> <<>>]]
NoResultSets == [keys |-> {}, val |-> [q \in Queries |-> {}]]
NoSent == [q \in Queries |-> [l \in Langs |-> 0]]

\* a call progress_callback(completed, total, query) as each batch method
\* makes it (lines 267-268, 342-343, 403-404, 411-412); total is
\* len(queries); log is the sequence of the calls made before
ProgressZeroBased(log, c, q) ==
    Append(log, [completed |-> c - 1, total |-> NumQueries, query |-> q])

progress_callback(log, c, q) ==
    Append(log, [completed |-> c, total |-> NumQueries, query |-> q])

\* the local state every batch method starts from
FreshBatch ==
    /\ i' = 1
    /\ tpc' = [t \in Threads |-> "idle"]
    /\ tq' = [t \in Threads |-> 0]
    /\ tlang' = [t \in Threads |-> 1]
    /\ tacc' = [t \in Threads |-> <<>>]
    /\ fres' = [q \in Queries |-> <<>>]
    /\ yielded' = {}
    /\ alang' = [q \in Queries |-> 1]
    /\ aacc' = [q \in Queries |-> <<>>]
    /\ aret' = [q \in Queries |-> {}]
    /\ sent' = NoSent
    /\ dispatched' = {}
    /\ stop_during' = FALSE
    /\ cut' = FALSE
    /\ progress' = <<>>

\* the end of a batch method: the result map it returns. out and ran keep
\* the map of the last batch of each mode that ran to its end.
Finish(m, res) ==
    /\ out' = IF cut THEN out ELSE [out EXCEPT ![m] = res]
    /\ ran' = IF cut THEN ran ELSE [ran EXCEPT ![m] = "clean"]
    /\ mode' = "idle"
    /\ pc' = "done"
    /\ stop_called' = FALSE
    /\ stop_during' = FALSE
    /\ stop_disp' = {}
    /\ dispatched' = {}

\* SearchExecutor.stop_execution(), called from outside at any moment
StopWithoutSignal ==
    /\ should_stop' = should_stop
    /\ stop_called' = TRUE
    /\ stop_during' = (mode # "idle")
    /\ stop_disp' = IF stop_during THEN stop_disp ELSE dispatched
    /\ UNCHANGED <<reply, mode, pc, is_running, results, completed, i,
                   tpc, tq, tlang, tacc, queue, future, fres, yielded,
                   apc, alang, aacc, aret, sem, stats, wait_calls,
                   sent, dispatched, cut, out, ran, send_waits>>
    /\ UNCHANGED progress
    /\ UNCHANGED outsideExec

stop_execution ==
    /\ should_stop' = TRUE
    /\ stop_called' = TRUE
    /\ stop_during' = (mode # "idle")
    /\ stop_disp' = IF stop_during THEN stop_disp ELSE dispatched
    /\ UNCHANGED <<reply, mode, pc, is_running, results, completed, i,
                   tpc, tq, tlang, tacc, queue, future, fres, yielded,
                   apc, alang, aacc, aret, sem, stats, wait_calls,
                   sent, dispatched, cut, out, ran, send_waits>>
    /\ UNCHANGED progress
    /\ UNCHANGED outsideExec

\* ---- execute_single_query, run by thread t ----

\* the test of the language loop, lines 207-209: does the loop end?
LoopIgnoresStop(l, stop) == l > NumLangs

LoopEnds(l, stop) == l > NumLangs \/ stop

\* lines 207-209: next language, or leave the loop
ESQ_Check(t) ==
    /\ tpc[t] = "check"
    /\ IF LoopEnds(tlang[t], should_stop)
       THEN /\ tpc' = [tpc EXCEPT ![t] = "return"]
            /\ cut' = (cut \/ tlang[t] <= NumLangs)
       ELSE /\ tpc' = [tpc EXCEPT ![t] = "send"]
            /\ cut' = cut
    /\ UNCHANGED <<reply, mode, pc, should_stop, is_running, results, completed, i,
                   tq, tlang, tacc, queue, future, fres, yielded,
                   apc, alang, aacc, aret, sem, stats, wait_calls,
                   sent, dispatched, stop_called, stop_during, stop_disp, out, ran, send_waits>>
    /\ UNCHANGED progress
    /\ UNCHANGED outsideExec

\* search_suggestions line 58 and _get_suggestions_chrome up to requests.get:
\* the request is sent; no call of the AntiSpiderManager is made
ESQ_Send(t) ==
    /\ tpc[t] = "send"
    /\ tpc' = [tpc EXCEPT ![t] = "fetching"]
    /\ stats' = [stats EXCEPT !.total_requests = @ + 1]
    /\ sent' = [sent EXCEPT ![tq[t]][tlang[t]] = @ + 1]
    /\ send_waits' = wait_calls
    /\ UNCHANGED <<reply, mode, pc, should_stop, is_running, results, completed, i,
                   tq, tlang, tacc, queue, future, fres, yielded,
                   apc, alang, aacc, aret, sem, wait_calls,
                   dispatched, stop_called, stop_during, stop_disp, cut, out, ran>>
    /\ UNCHANGED progress
    /\ UNCHANGED outsideExec

\* the response arrives: _get_suggestions_chrome lines 92-101,
\* search_suggestions lines 63-71, execute_single_query lines 212-213
ESQ_Recv(t) ==
    /\ tpc[t] = "fetching"
    /\ LET suggestions == _get_suggestions_chrome(reply[tq[t]][tlang[t]])
       IN  /\ stats' = IF suggestions # <<>>
                       THEN [stats EXCEPT !.successful_requests = @ + 1,
                                          !.total_suggestions = @ + Len(suggestions)]
                       ELSE [stats EXCEPT !.failed_requests = @ + 1]
           /\ tacc' = [tacc EXCEPT ![t] = @ \o suggestions]
    /\ tlang' = [tlang EXCEPT ![t] = @ + 1]
    /\ tpc' = [tpc EXCEPT ![t] = "check"]
    /\ UNCHANGED <<reply, mode, pc, should_stop, is_running, results, completed, i,
                   tq, queue, future, fres, yielded,
                   apc, alang, aacc, aret, sem, wait_calls,
                   sent, dispatched, stop_called, stop_during, stop_disp, cut, out, ran, send_waits>>
    /\ UNCHANGED progress
    /\ UNCHANGED outsideExec

\* ---- execute_query_batch (sequential mode) ----

\* SearchSession.execute_queries, sequential branch; execute_query_batch lines 229-231
StartSequential ==
    /\ mode = "idle"
    /\ pc = "idle"
    /\ mode' = "sequential"
    /\ pc' = "loop"
    /\ results' = NoResults
    /\ is_running' = TRUE
    /\ should_stop' = FALSE
    /\ FreshBatch
    /\ UNCHANGED <<reply, completed, queue, future, apc, sem, stats, wait_calls,
                   stop_called, stop_disp, out, ran, send_waits>>
    /\ UNCHANGED outsideExec

\* lines 236-242: the loop head, the stop test and the call of execute_single_query
SeqLoop ==
    /\ mode = "sequential"
    /\ pc = "loop"
    /\ IF i > NumQueries \/ should_stop
       THEN /\ pc' = "finally"
            /\ cut' = (cut \/ i <= NumQueries)
            /\ UNCHANGED <<tpc, tq, tlang, tacc, dispatched>>
       ELSE /\ pc' = "query"
            /\ tpc' = [tpc EXCEPT ![0] = "check"]
            /\ tq' = [tq EXCEPT ![0] = i]
            /\ tlang' = [tlang EXCEPT ![0] = 1]
            /\ tacc' = [tacc EXCEPT ![0] = <<>>]
            /\ dispatched' = dispatched \cup {i}
            /\ cut' = cut
    /\ UNCHANGED <<reply, mode, should_stop, is_running, results, completed, i,
                   queue, future, fres, yielded, apc, alang, aacc, aret, sem,
                   stats, wait_calls, sent, stop_called, stop_during, stop_disp,
                   out, ran, send_waits>>
    /\ UNCHANGED progress
    /\ UNCHANGED outsideExec

\* lines 244-268: execute_single_query has returned; merge and record
SeqMerge ==
    /\ mode = "sequential"
    /\ pc = "query"
    /\ tpc[0] = "return"
    /\ results' = IF tacc[0] # <<>>
                  THEN [keys |-> results.keys \cup {i},
                        val |-> [results.val EXCEPT ![i] = UniqueInOrder(tacc[0], {})]]
                  ELSE results
    /\ progress' = progress_callback(progress, i, i)
    /\ i' = i + 1
    /\ pc' = "loop"
    /\ tpc' = [tpc EXCEPT ![0] = "idle"]
    /\ UNCHANGED <<reply, mode, should_stop, is_running, completed,
                   tq, tlang, tacc, queue, future, fres, yielded,
                   apc, alang, aacc, aret, sem, stats, wait_calls,
                   sent, dispatched, stop_called, stop_during, stop_disp, cut,
                   out, ran, send_waits>>
    /\ UNCHANGED outsideExec

\* lines 270-272: KeyboardInterrupt in the main thread during the loop
SeqInterrupt ==
    /\ mode = "sequential"
    /\ pc \in {"loop", "query"}
    /\ should_stop' = TRUE
    /\ cut' = TRUE
    /\ pc' = "finally"
    /\ tpc' = [tpc EXCEPT ![0] = "idle"]
    /\ UNCHANGED <<reply, mode, is_running, results, completed, i,
                   tq, tlang, tacc, queue, future, fres, yielded,
                   apc, alang, aacc, aret, sem, stats, wait_calls,
                   sent, dispatched, stop_called, stop_during, stop_disp,
                   out, ran, send_waits>>
    /\ UNCHANGED progress
    /\ UNCHANGED outsideExec

\* lines 277-281: finally, return results
SeqFinish ==
    /\ mode = "sequential"
    /\ pc = "finally"
    /\ is_running' = FALSE
    /\ Finish("sequential", results)
    /\ UNCHANGED <<reply, should_stop, results, completed, i,
                   tpc, tq, tlang, tacc, queue, future, fres, yielded,
                   apc, alang, aacc, aret, sem, stats, wait_calls,
                   sent, cut, send_waits>>
    /\ UNCHANGED progress
    /\ UNCHANGED outsideExec

\* ---- execute_queries_parallel (worker-pool mode) ----

RECURSIVE AllQueries(_)
AllQueries(n) == IF n = 0 THEN <<>> ELSE Append(AllQueries(n - 1), n)

\* SearchSession.execute_queries, parallel branch; lines 297-310: every
\* query is submitted to the pool at once
StartParallel ==
    /\ mode = "idle"
    /\ pc = "idle"
    /\ mode' = "parallel"
    /\ pc' = "collect"
    /\ results' = NoResultSets
    /\ is_running' = TRUE
    /\ should_stop' = FALSE
    /\ completed' = 0
    /\ queue' = AllQueries(NumQueries)
    /\ future' = [q \in Queries |-> "pending"]
    /\ FreshBatch
    /\ UNCHANGED <<reply, apc, sem, stats, wait_calls,
                   stop_called, stop_disp, out, ran, send_waits>>
    /\ UNCHANGED outsideExec

\* a worker thread takes the next work item; a cancelled future is skipped
WorkerTake(w) ==
    /\ mode = "parallel"
    /\ tpc[w] = "idle"
    /\ queue # <<>>
    /\ queue' = Tail(queue)
    /\ LET q == Head(queue)
       IN  IF future[q] = "cancelled"
           THEN UNCHANGED <<future, tpc, tq, tlang, tacc, dispatched>>
           ELSE /\ future' = [future EXCEPT ![q] = "running"]
                /\ tpc' = [tpc EXCEPT ![w] = "check"]
                /\ tq' = [tq EXCEPT ![w] = q]
                /\ tlang' = [tlang EXCEPT ![w] = 1]
                /\ tacc' = [tacc EXCEPT ![w] = <<>>]
                /\ dispatched' = dispatched \cup {q}
    /\ UNCHANGED <<reply, mode, pc, should_stop, is_running, results, completed, i,
                   fres, yielded, apc, alang, aacc, aret, sem, stats, wait_calls,
                   sent, stop_called, stop_during, stop_disp, cut, out, ran, send_waits>>
    /\ UNCHANGED progress
    /\ UNCHANGED outsideExec

\* execute_single_query returns in a worker: the future is finished
WorkerReturn(w) ==
    /\ mode = "parallel"
    /\ tpc[w] = "return"
    /\ future' = [future EXCEPT ![tq[w]] = "finished"]
    /\ fres' = [fres EXCEPT ![tq[w]] = tacc[w]]
    /\ tpc' = [tpc EXCEPT ![w] = "idle"]
    /\ UNCHANGED <<reply, mode, pc, should_stop, is_running, results, completed, i,
                   tq, tlang, tacc, queue, yielded, apc, alang, aacc, aret, sem,
                   stats, wait_calls, sent, dispatched, stop_called, stop_during,
                   stop_disp, cut, out, ran, send_waits>>
    /\ UNCHANGED progress
    /\ UNCHANGED outsideExec

\* lines 313-343: as_completed yields the finished future of q
ParCollect(q) ==
    /\ mode = "parallel"
    /\ pc = "collect"
    /\ future[q] = "finished"
    /\ q \notin yielded
    /\ IF should_stop
       THEN /\ future' = [x \in Queries |->
                            IF future[x] = "pending" THEN "cancelled" ELSE future[x]]
            /\ pc' = "shutdown"
            /\ cut' = TRUE
            /\ UNCHANGED <<yielded, completed, results, progress>>
       ELSE /\ yielded' = yielded \cup {q}
            /\ completed' = completed + 1
            /\ progress' = progress_callback(progress, completed', q)
            /\ results' = IF fres[q] # <<>>
                          THEN [keys |-> results.keys \cup {q},
                                val |-> [results.val EXCEPT ![q] = Range(fres[q])]]
                          ELSE results
            /\ pc' = IF yielded \cup {q} = Queries THEN "shutdown" ELSE "collect"
            /\ UNCHANGED <<future, cut>>
    /\ UNCHANGED <<reply, mode, should_stop, is_running, i,
                   tpc, tq, tlang, tacc, queue, fres, apc, alang, aacc, aret, sem,
                   stats, wait_calls, sent, dispatched, stop_called, stop_during,
                   stop_disp, out, ran, send_waits>>
    /\ UNCHANGED outsideExec

\* lines 345-347: KeyboardInterrupt in the main thread inside the with block;
\* leaving the block waits for the pool before the handler runs
ParInterrupt ==
    /\ mode = "parallel"
    /\ pc = "collect"
    /\ pc' = "interrupted"
    /\ cut' = TRUE
    /\ UNCHANGED <<reply, mode, should_stop, is_running, results, completed, i,
                   tpc, tq, tlang, tacc, queue, future, fres, yielded,
                   apc, alang, aacc, aret, sem, stats, wait_calls,
                   sent, dispatched, stop_called, stop_during, stop_disp,
                   out, ran, send_waits>>
    /\ UNCHANGED progress
    /\ UNCHANGED outsideExec

\* the with block is left (shutdown(wait=True): the queue is drained and the
\* workers are idle), then lines 345-353
ParFinish ==
    /\ mode = "parallel"
    /\ pc \in {"shutdown", "interrupted"}
    /\ queue = <<>>
    /\ \A w \in Workers : tpc[w] = "idle"
    /\ should_stop' = (should_stop \/ pc = "interrupted")
    /\ is_running' = FALSE
    /\ Finish("parallel", results)
    /\ UNCHANGED <<reply, results, completed, i,
                   tpc, tq, tlang, tacc, queue, future, fres, yielded,
                   apc, alang, aacc, aret, sem, stats, wait_calls,
                   sent, cut, send_waits>>
    /\ UNCHANGED progress
    /\ UNCHANGED outsideExec

\* ---- execute_queries_async (async mode) ----

\* SearchSession.execute_queries, async branch; lines 369-371 and 421-423:
\* one coroutine per query, all waiting for the semaphore
StartAsync ==
    /\ mode = "idle"
    /\ pc = "idle"
    /\ mode' = "async"
    /\ pc' = "gather"
    /\ results' = NoResultSets
    /\ completed' = 0
    /\ sem' = ConcurrentLimit
    /\ apc' = [q \in Queries |-> "waiting"]
    /\ FreshBatch
    /\ UNCHANGED <<reply, should_stop, is_running, queue, future, stats, wait_calls,
                   stop_called, stop_disp, out, ran, send_waits>>
    /\ UNCHANGED outsideExec

\* the semaphore after a coroutine has entered "async with semaphore"
SemNotTaken(n) == n

SemAfterAcquire(n) == n - 1

\* line 376: the coroutine of q acquires the semaphore
AsyncAcquire(q) ==
    /\ mode = "async"
    /\ apc[q] = "waiting"
    /\ sem > 0
    /\ sem' = SemAfterAcquire(sem)
    /\ apc' = [apc EXCEPT ![q] = "send"]
    /\ dispatched' = dispatched \cup {q}
    /\ UNCHANGED <<reply, mode, pc, should_stop, is_running, results, completed, i,
                   tpc, tq, tlang, tacc, queue, future, fres, yielded,
                   alang, aacc, aret, stats, wait_calls,
                   sent, stop_called, stop_during, stop_disp, cut, out, ran, send_waits>>
    /\ UNCHANGED progress
    /\ UNCHANGED outsideExec

\* line 396: self.google_api._parse_suggestions(data). GoogleSuggestAPI
\* defines no attribute _parse_suggestions, so the call raises
\* AttributeError whatever the data.
_parse_suggestions(data) == [raised |-> TRUE, value |-> <<>>]

\* lines 382-393: the next language's request is sent, or, after the last
\* language, lines 399-406: the coroutine returns and releases the semaphore
AsyncSend(q) ==
    /\ mode = "async"
    /\ apc[q] = "send"
    /\ IF alang[q] > NumLangs
       THEN /\ aret' = [aret EXCEPT ![q] = Range(aacc[q])]
            /\ completed' = completed + 1
            /\ progress' = progress_callback(progress, completed', q)
            /\ sem' = sem + 1
            /\ apc' = [apc EXCEPT ![q] = "done"]
            /\ UNCHANGED <<sent, send_waits>>
       ELSE /\ sent' = [sent EXCEPT ![q][alang[q]] = @ + 1]
            /\ send_waits' = wait_calls
            /\ apc' = [apc EXCEPT ![q] = "inflight"]
            /\ UNCHANGED <<aret, completed, sem, progress>>
    /\ UNCHANGED <<reply, mode, pc, should_stop, is_running, results, i,
                   tpc, tq, tlang, tacc, queue, future, fres, yielded,
                   alang, aacc, stats, wait_calls,
                   dispatched, stop_called, stop_during, stop_disp, cut, out, ran>>
    /\ UNCHANGED outsideExec

\* lines 394-397 and 408-413: the response arrives
AsyncRecv(q) ==
    /\ mode = "async"
    /\ apc[q] = "inflight"
    /\ LET r == reply[q][alang[q]]
           parsed == _parse_suggestions(r.data)
       IN  IF r.status = 200
           THEN IF parsed.raised
                THEN /\ aret' = [aret EXCEPT ![q] = {}]
                     /\ completed' = completed + 1
                     /\ progress' = progress_callback(progress, completed', q)
                     /\ sem' = sem + 1
                     /\ apc' = [apc EXCEPT ![q] = "done"]
                     /\ UNCHANGED <<alang, aacc>>
                ELSE /\ aacc' = [aacc EXCEPT ![q] = @ \o parsed.value]
                     /\ alang' = [alang EXCEPT ![q] = @ + 1]
                     /\ apc' = [apc EXCEPT ![q] = "send"]
                     /\ UNCHANGED <<aret, completed, sem, progress>>
           ELSE /\ alang' = [alang EXCEPT ![q] = @ + 1]
                /\ apc' = [apc EXCEPT ![q] = "send"]
                /\ UNCHANGED <<aret, completed, sem, aacc, progress>>
    /\ UNCHANGED <<reply, mode, pc, should_stop, is_running, results, i,
                   tpc, tq, tlang, tacc, queue, future, fres, yielded,
                   stats, wait_calls, sent, send_waits,
                   dispatched, stop_called, stop_during, stop_disp, cut, out, ran>>
    /\ UNCHANGED outsideExec

\* lines 423-435: gather has every coroutine's result; the non-empty ones
\* are put into the result map, which is returned
AsyncGather ==
    /\ mode = "async"
    /\ pc = "gather"
    /\ \A q \in Queries : apc[q] = "done"
    /\ results' = [keys |-> {q \in Queries : aret[q] # {}}, val |-> aret]
    /\ Finish("async", results')
    /\ UNCHANGED <<reply, should_stop, is_running, completed, i,
                   tpc, tq, tlang, tacc, queue, future, fres, yielded,
                   apc, alang, aacc, aret, sem, stats, wait_calls,
                   sent, cut, send_waits>>
    /\ UNCHANGED progress
    /\ UNCHANGED outsideExec

\* ---- specification of the executor ----

\* SearchExecutor.__init__ and GoogleSuggestAPI.__init__, with the endpoint r
InitExecWith(r) ==
    /\ reply = r
    /\ mode = "idle"
    /\ pc = "idle"
    /\ should_stop = FALSE
    /\ is_running = FALSE
    /\ results = NoResults
    /\ completed = 0
    /\ i = 1
    /\ tpc = [t \in Threads |-> "idle"]
    /\ tq = [t \in Threads |-> 0]
    /\ tlang = [t \in Threads |-> 1]
    /\ tacc = [t \in Threads |-> <<>>]
    /\ queue = <<>>
    /\ future = [q \in Queries |-> "none"]
    /\ fres = [q \in Queries |-> <<>>]
    /\ yielded = {}
    /\ apc = [q \in Queries |-> "none"]
    /\ alang = [q \in Queries |-> 1]
    /\ aacc = [q \in Queries |-> <<>>]
    /\ aret = [q \in Queries |-> {}]
    /\ sem = 0
    /\ stats = [total_requests |-> 0, successful_requests |-> 0,
                failed_requests |-> 0, total_suggestions |-> 0]
    /\ wait_calls = 0
    /\ sent = NoSent
    /\ dispatched = {}
    /\ stop_called = FALSE
    /\ stop_during = FALSE
    /\ stop_disp = {}
    /\ cut = FALSE
    /\ out = [m \in Modes |-> IF m = "sequential" THEN NoResults ELSE NoResultSets]
    /\ ran = [m \in Modes |-> "no"]
    /\ send_waits = 0
    /\ progress = <<>>

Endpoints == [Queries -> [Langs -> Replies]]
QuietEndpoint == [q \in Queries |-> [l \in Langs |-> [status |-> 500, wellformed |-> FALSE, data |-> <<>>]]]

\* KeywordMonitor.run_single_keyword, lines 96-105: every run constructs its
\* own AntiSpiderManager and SearchExecutor (SearchExecutor.__init__); the
\* endpoint and the record of the earlier runs stay
NewExecutor ==
    /\ mode = "idle"
    /\ pc = "done"
    /\ pc' = "idle"
    /\ should_stop' = FALSE
    /\ is_running' = FALSE
    /\ results' = NoResults
    /\ completed' = 0
    /\ queue' = <<>>
    /\ future' = [q \in Queries |-> "none"]
    /\ apc' = [q \in Queries |-> "none"]
    /\ sem' = 0
    /\ stats' = [total_requests |-> 0, successful_requests |-> 0,
                 failed_requests |-> 0, total_suggestions |-> 0]
    /\ wait_calls' = 0
    /\ send_waits' = 0
    /\ stop_called' = FALSE
    /\ stop_disp' = {}
    /\ FreshBatch
    /\ UNCHANGED <<reply, mode, out, ran>>
    /\ UNCHANGED outsideExec

\* the executor used in sequential mode
NextSequential ==
    \/ stop_execution
    \/ StartSequential
    \/ SeqLoop
    \/ \E t \in Threads : ESQ_Check(t)
    \/ \E t \in Threads : ESQ_Send(t)
    \/ \E t \in Threads : ESQ_Recv(t)
    \/ SeqMerge
    \/ SeqInterrupt
    \/ SeqFinish
    \/ NewExecutor

\* the executor used in worker-pool mode
NextParallel ==
    \/ stop_execution
    \/ StartParallel
    \/ \E w \in Workers : WorkerTake(w)
    \/ \E t \in Threads : ESQ_Check(t)
    \/ \E t \in Threads : ESQ_Send(t)
    \/ \E t \in Threads : ESQ_Recv(t)
    \/ \E w \in Workers : WorkerReturn(w)
    \/ \E q \in Queries : ParCollect(q)
    \/ ParInterrupt
    \/ ParFinish
    \/ NewExecutor

\* the executor used in async mode
NextAsync ==
    \/ stop_execution
    \/ StartAsync
    \/ \E q \in Queries : AsyncAcquire(q)
    \/ \E q \in Queries : AsyncSend(q)
    \/ \E q \in Queries : AsyncRecv(q)
    \/ AsyncGather
    \/ NewExecutor

\* the executor with the mode chosen per run
NextExec ==
    \/ stop_execution
    \/ StartSequential
    \/ SeqLoop
    \/ \E t \in Threads : ESQ_Check(t)
    \/ \E t \in Threads : ESQ_Send(t)
    \/ \E t \in Threads : ESQ_Recv(t)
    \/ SeqMerge
    \/ SeqInterrupt
    \/ SeqFinish
    \/ StartParallel
    \/ \E w \in Workers : WorkerTake(w)
    \/ \E w \in Workers : WorkerReturn(w)
    \/ \E q \in Queries : ParCollect(q)
    \/ ParInterrupt
    \/ ParFinish
    \/ StartAsync
    \/ \E q \in Queries : AsyncAcquire(q)
    \/ \E q \in Queries : AsyncSend(q)
    \/ \E q \in Queries : AsyncRecv(q)
    \/ AsyncGather
    \/ NewExecutor

\* ------------------------------------------------------------------------
\* RequestDelayManager, as AntiSpiderManager.make_request drives it
\* ------------------------------------------------------------------------
\* Bounds of the delay model
\* on_failure calls made in a behaviour
MaxFail == 4
\* on_success calls that concurrent threads make in a behaviour
MaxSucc == 2
\* threads inside make_request at the same time
NumReporters == 2

Reporters == 1..NumReporters
\* A delay of x seconds is the integer x * Scale. Every delay the manager
\* can hold after at most MaxFail failures is a multiple of 1/Scale seconds
\* (a failure multiplies by 3/2 or 2, a success subtracts 1/2), and all of
\* them are binary fractions, which the float arithmetic of the code
\* computes exactly.
Scale == 2 ^ MaxFail
\* on_failure, line 249
max_delay == 30
\* on_success, lines 232-233: the step 0.5
success_step == Scale \div 2
\* base_delay of the request settings, in seconds: the default [1, 3] and
\* other lists of two integers, which is all that RequestSettings demands
BaseDelays == {<<1, 3>>, <<0, 2>>, <<31, 40>>}
\* the status_code argument of on_failure: a status other than 200, or None
\* (timeout, connection error, other exception)
Statuses == {429, 503, 500, None}
\* what a request of make_request comes to: "ok" (a 200 whose body is JSON),
\* "badjson" (a 200 whose body is not: response.json() raises after
\* on_success has run, and the handler at line 408 calls on_failure()),
\* or "failed" with its status.

Max(a, b) == IF a > b THEN a ELSE b

\* on_failure, lines 243-246: twice the multiplier (1.5, or 2.0 for a
\* status in [429, 503])
FlatTwiceMultiplier(status) == 3

TwiceMultiplier(status) == IF status \in {429, 503} THEN 4 ELSE 3

\* on_failure, lines 248-254: one bound after a failure
Widen(x, status) == Min((x * TwiceMultiplier(status)) \div 2, max_delay * Scale)

\* on_success, lines 232-233: one bound after a success
Narrow(x, b) == Max(b, x - success_step)

\* on_success, line 231: is the window to be lowered?
Lowerable(cur, base) == cur[1] > base[1]

\* ---- the calls made one at a time ----

\* RequestDelayManager.on_success()
on_success ==
    /\ \A c \in Reporters : rpc[c] = "idle"
    /\ consecutive_failures' = 0
    /\ current_delay' =
          IF dynamic_delay /\ Lowerable(current_delay, base_delay)
          THEN <<Narrow(current_delay[1], base_delay[1]),
                 Narrow(current_delay[2], base_delay[2])>>
          ELSE current_delay
    /\ nsuccess' = Min(nsuccess + 1, MaxSucc)
    /\ ideal_delay' = current_delay'
    /\ dlast' = [op |-> "on_success", status |-> None, before |-> current_delay]
    /\ UNCHANGED <<base_delay, dynamic_delay, rpc, routcome, rcf, rmin, rmax, nfail>>
    /\ UNCHANGED outsideDelay

\* RequestDelayManager.on_failure(status_code)
on_failure(st) ==
    /\ \A c \in Reporters : rpc[c] = "idle"
    /\ nfail < MaxFail
    /\ nfail' = nfail + 1
    /\ consecutive_failures' = consecutive_failures + 1
    /\ current_delay' =
          IF dynamic_delay
          THEN <<Widen(current_delay[1], st), Widen(current_delay[2], st)>>
          ELSE current_delay
    /\ ideal_delay' = current_delay'
    /\ dlast' = [op |-> "on_failure", status |-> st, before |-> current_delay]
    /\ UNCHANGED <<base_delay, dynamic_delay, rpc, routcome, rcf, rmin, rmax, nsuccess>>
    /\ UNCHANGED outsideDelay

\* ---- the calls made by concurrent threads, attribute access by attribute access ----

\* make_request, lines 381-413: the request of thread c has come to outcome
\* o (with status st if it failed) and the thread enters the callback
ReportOutcome(c, o, st) ==
    /\ rpc[c] = "idle"
    /\ o # "ok" => nfail < MaxFail
    /\ o # "failed" => nsuccess < MaxSucc
    /\ nfail' = IF o = "ok" THEN nfail ELSE nfail + 1
    /\ nsuccess' = IF o = "failed" THEN nsuccess ELSE nsuccess + 1
    /\ ideal_delay' =
          IF o = "failed" /\ dynamic_delay
          THEN <<Widen(ideal_delay[1], st), Widen(ideal_delay[2], st)>>
          ELSE ideal_delay
    /\ rpc' = [rpc EXCEPT ![c] = IF o = "failed" THEN "f_load" ELSE "s_zero"]
    /\ routcome' = [routcome EXCEPT ![c] =
                       [kind |-> o, status |-> IF o = "failed" THEN st ELSE None]]
    /\ UNCHANGED <<base_delay, dynamic_delay, current_delay, consecutive_failures,
                   rcf, rmin, rmax, dlast>>
    /\ UNCHANGED outsideDelay

\* where thread c goes when its on_success has returned
AfterSuccessCall(c) == IF routcome[c].kind = "badjson" THEN "f_load" ELSE "idle"

\* on_success, line 228
OnSuccessZero(c) ==
    /\ rpc[c] = "s_zero"
    /\ consecutive_failures' = 0
    /\ rpc' = [rpc EXCEPT ![c] = "s_test"]
    /\ UNCHANGED <<base_delay, dynamic_delay, current_delay, routcome, rcf, rmin, rmax,
                   nfail, nsuccess, ideal_delay, dlast>>
    /\ UNCHANGED outsideDelay

\* on_success, line 231
OnSuccessTest(c) ==
    /\ rpc[c] = "s_test"
    /\ rpc' = [rpc EXCEPT ![c] =
                  IF dynamic_delay /\ Lowerable(current_delay, base_delay)
                  THEN "s_min" ELSE AfterSuccessCall(c)]
    /\ UNCHANGED <<base_delay, dynamic_delay, current_delay, consecutive_failures,
                   routcome, rcf, rmin, rmax, nfail, nsuccess, ideal_delay, dlast>>
    /\ UNCHANGED outsideDelay

\* on_success, line 232
OnSuccessReadMin(c) ==
    /\ rpc[c] = "s_min"
    /\ rmin' = [rmin EXCEPT ![c] = Narrow(current_delay[1], base_delay[1])]
    /\ rpc' = [rpc EXCEPT ![c] = "s_max"]
    /\ UNCHANGED <<base_delay, dynamic_delay, current_delay, consecutive_failures,
                   routcome, rcf, rmax, nfail, nsuccess, ideal_delay, dlast>>
    /\ UNCHANGED outsideDelay

\* on_success, line 233
OnSuccessReadMax(c) ==
    /\ rpc[c] = "s_max"
    /\ rmax' = [rmax EXCEPT ![c] = Narrow(current_delay[2], base_delay[2])]
    /\ rpc' = [rpc EXCEPT ![c] = "s_store"]
    /\ UNCHANGED <<base_delay, dynamic_delay, current_delay, consecutive_failures,
                   routcome, rcf, rmin, nfail, nsuccess, ideal_delay, dlast>>
    /\ UNCHANGED outsideDelay

\* on_success, line 234
OnSuccessStore(c) ==
    /\ rpc[c] = "s_store"
    /\ current_delay' = <<rmin[c], rmax[c]>>
    /\ rmin' = [rmin EXCEPT ![c] = 0]
    /\ rmax' = [rmax EXCEPT ![c] = 0]
    /\ rpc' = [rpc EXCEPT ![c] = AfterSuccessCall(c)]
    /\ UNCHANGED <<base_delay, dynamic_delay, consecutive_failures,
                   routcome, rcf, nfail, nsuccess, ideal_delay, dlast>>
    /\ UNCHANGED outsideDelay

\* on_failure, line 240: self.consecutive_failures is read
OnFailureLoad(c) ==
    /\ rpc[c] = "f_load"
    /\ rcf' = [rcf EXCEPT ![c] = consecutive_failures]
    /\ rpc' = [rpc EXCEPT ![c] = "f_inc"]
    /\ UNCHANGED <<base_delay, dynamic_delay, current_delay, consecutive_failures,
                   routcome, rmin, rmax, nfail, nsuccess, ideal_delay, dlast>>
    /\ UNCHANGED outsideDelay

\* on_failure, lines 240 and 243: the sum is stored
OnFailureStoreCount(c) ==
    /\ rpc[c] = "f_inc"
    /\ consecutive_failures' = rcf[c] + 1
    /\ rcf' = [rcf EXCEPT ![c] = 0]
    /\ rpc' = [rpc EXCEPT ![c] = IF dynamic_delay THEN "f_min" ELSE "idle"]
    /\ UNCHANGED <<base_delay, dynamic_delay, current_delay,
                   routcome, rmin, rmax, nfail, nsuccess, ideal_delay, dlast>>
    /\ UNCHANGED outsideDelay

\* on_failure, line 248 (and line 252 for the bound)
OnFailureReadMin(c) ==
    /\ rpc[c] = "f_min"
    /\ rmin' = [rmin EXCEPT ![c] = Widen(current_delay[1], routcome[c].status)]
    /\ rpc' = [rpc EXCEPT ![c] = "f_max"]
    /\ UNCHANGED <<base_delay, dynamic_delay, current_delay, consecutive_failures,
                   routcome, rcf, rmax, nfail, nsuccess, ideal_delay, dlast>>
    /\ UNCHANGED outsideDelay

\* on_failure, line 249 (and line 253 for the bound)
OnFailureReadMax(c) ==
    /\ rpc[c] = "f_max"
    /\ rmax' = [rmax EXCEPT ![c] = Widen(current_delay[2], routcome[c].status)]
    /\ rpc' = [rpc EXCEPT ![c] = "f_store"]
    /\ UNCHANGED <<base_delay, dynamic_delay, current_delay, consecutive_failures,
                   routcome, rcf, rmin, nfail, nsuccess, ideal_delay, dlast>>
    /\ UNCHANGED outsideDelay

\* on_failure, lines 251-254
OnFailureStore(c) ==
    /\ rpc[c] = "f_store"
    /\ current_delay' = <<rmin[c], rmax[c]>>
    /\ rmin' = [rmin EXCEPT ![c] = 0]
    /\ rmax' = [rmax EXCEPT ![c] = 0]
    /\ rpc' = [rpc EXCEPT ![c] = "idle"]
    /\ UNCHANGED <<base_delay, dynamic_delay, consecutive_failures,
                   routcome, rcf, nfail, nsuccess, ideal_delay, dlast>>
    /\ UNCHANGED outsideDelay

\* RequestDelayManager.__init__ with base_delay b (in seconds) and dynamic_delay d
InitDelayWith(b, d) ==
    /\ base_delay = <<b[1] * Scale, b[2] * Scale>>
    /\ dynamic_delay = d
    /\ current_delay = <<b[1] * Scale, b[2] * Scale>>
    /\ consecutive_failures = 0
    /\ rpc = [c \in Reporters |-> "idle"]
    /\ routcome = [c \in Reporters |-> [kind |-> "ok", status |-> None]]
    /\ rcf = [c \in Reporters |-> 0]
    /\ rmin = [c \in Reporters |-> 0]
    /\ rmax = [c \in Reporters |-> 0]
    /\ nfail = 0
    /\ nsuccess = 0
    /\ ideal_delay = <<b[1] * Scale, b[2] * Scale>>
    /\ dlast = [op |-> "none", status |-> None, before |-> <<b[1] * Scale, b[2] * Scale>>]

\* the delay manager with one caller at a time
NextDelay ==
    \/ on_success
    \/ \E st \in Statuses : on_failure(st)

\* the delay manager with concurrent callers
NextDelayRace ==
    \/ \E c \in Reporters : ReportOutcome(c, "ok", None)
    \/ \E c \in Reporters : ReportOutcome(c, "badjson", None)
    \/ \E c \in Reporters : \E st \in Statuses : ReportOutcome(c, "failed", st)
    \/ \E c \in Reporters : OnSuccessZero(c)
    \/ \E c \in Reporters : OnSuccessTest(c)
    \/ \E c \in Reporters : OnSuccessReadMin(c)
    \/ \E c \in Reporters : OnSuccessReadMax(c)
    \/ \E c \in Reporters : OnSuccessStore(c)
    \/ \E c \in Reporters : OnFailureLoad(c)
    \/ \E c \in Reporters : OnFailureStoreCount(c)
    \/ \E c \in Reporters : OnFailureReadMin(c)
    \/ \E c \in Reporters : OnFailureReadMax(c)
    \/ \E c \in Reporters : OnFailureStore(c)

\* ------------------------------------------------------------------------
\* KeywordMonitor.run_single_keyword and the snapshot store (DataProcessor)
\* ------------------------------------------------------------------------
\* Bounds of the pipeline model
\* the days are 0..MaxDay
MaxDay == 1

\* validate_keyword, line 153
max_keyword_length == 100
\* _sanitize_filename, lines 646-647
max_filename_length == 50

\* A keyword is the sequence of its characters.
Whitespace == {" "}
\* validate_keyword, line 157
invalid_chars == {"<", ">", "\"", "'", "&", "%"}
\* _sanitize_filename, line 640: the characters replaced by an underscore
IllegalFileChars == {"<", ">", ":", "\"", "/", "\\", "|", "?", "*"} \cup Whitespace

LongKeyword == [k \in 1..(max_keyword_length + 1) |-> "a"]
\* the keyword lists a behaviour monitors (config keywords, or -k on the
\* command line): valid keywords, keywords that validate_keyword rejects
\* (empty, blank, forbidden character, longer than 100 characters) and
\* keywords with the same file name
KeywordSets ==
    { {<<"a">>, <<"a", " ", "b">>},
      {<<"a", " ", "b">>, <<"a", "_", "b">>},
      {<<"a">>, <<"a", "<">>},
      {<<>>, <<" ">>},
      {LongKeyword} }

Keywords == UNION KeywordSets

\* str.strip(chars): s without its leading and trailing characters of chars
Strip(s, chars) ==
    LET kept == {k \in 1..Len(s) : s[k] \notin chars}
    IN  IF kept = {} THEN <<>>
        ELSE SubSeq(s, CHOOSE k \in kept : \A m \in kept : k <= m,
                       CHOOSE k \in kept : \A m \in kept : k >= m)

\* QueryGenerator.validate_keyword
validate_keyword(main_keyword) ==
    LET stripped == Strip(main_keyword, Whitespace)
    IN  IF main_keyword = <<>> \/ stripped = <<>>
        THEN [valid |-> FALSE, error |-> "empty"]
        ELSE IF Len(stripped) > max_keyword_length
        THEN [valid |-> FALSE, error |-> "too long"]
        ELSE IF \E k \in 1..Len(stripped) : stripped[k] \in invalid_chars
        THEN [valid |-> FALSE, error |-> "invalid character"]
        ELSE [valid |-> TRUE, error |-> ""]

\* re.sub(r'_+', '_', s): an underscore that follows an underscore is dropped
CollapseUnderscores(s) ==
    LET kept == {k \in 1..Len(s) : ~(k > 1 /\ s[k] = "_" /\ s[k - 1] = "_")}
    IN  [j \in 1..Cardinality(kept) |->
            s[CHOOSE k \in kept : Cardinality({m \in kept : m <= k}) = j]]

\* DataProcessor._sanitize_filename
_sanitize_filename(filename) ==
    LET replaced  == [k \in 1..Len(filename) |->
                         IF filename[k] \in IllegalFileChars THEN "_" ELSE filename[k]]
        collapsed == CollapseUnderscores(replaced)
        stripped  == Strip(collapsed, {"_"})
    IN  IF Len(stripped) > max_filename_length
        THEN SubSeq(stripped, 1, max_filename_length)
        ELSE stripped

\* What execute_queries returns for a run: per query, the list of its
\* suggestions (the map is empty when no query succeeded). A suggestion is
\* the sequence of its characters.
ResultMaps == {<<>>, << << <<"a">> >> >>, << << <<"a">>, <<"b">> >> >>}

\* string.ascii_lowercase
ascii_lowercase ==
    <<"a", "b", "c", "d", "e", "f", "g", "h", "i", "j", "k", "l", "m",
      "n", "o", "p", "q", "r", "s", "t", "u", "v", "w", "x", "y", "z">>

\* the characters of the model's strings in the order of their code points
CharsByCode == <<" ", "<", "B", "_">> \o ascii_lowercase

\* ord(): the code point of a character
ord(ch) ==
    CASE ch = " " -> 32
      [] ch = "<" -> 60
      [] ch = "B" -> 66
      [] ch = "_" -> 95
      [] OTHER -> 96 + (CHOOSE k \in DOMAIN ascii_lowercase : ascii_lowercase[k] = ch)

\* str.__lt__: x < y, lexicographic by code point
StrLess(x, y) ==
    \E k \in 1..(Min(Len(x), Len(y)) + 1) :
        /\ \A j \in 1..(k - 1) : x[j] = y[j]
        /\ k <= Len(y)
        /\ (k <= Len(x) => ord(x[k]) < ord(y[k]))

RECURSIVE SortFrom(_, _)
RECURSIVE SortBuckets(_, _, _)
\* the strings of S, which agree on their first k - 1 characters, in
\* ascending order: the one that ends there, then the others by their k-th
\* character
SortFrom(S, k) ==
    IF S = {} THEN <<>>
    ELSE LET ended == {x \in S : Len(x) < k}
         IN  (IF ended = {} THEN <<>> ELSE <<CHOOSE x \in ended : TRUE>>)
                 \o SortBuckets(S \ ended, k, 1)

\* the strings of S whose k-th character is one of CharsByCode[c], ...
SortBuckets(S, k, c) ==
    IF c > Len(CharsByCode) \/ S = {} THEN <<>>
    ELSE SortFrom({x \in S : x[k] = CharsByCode[c]}, k + 1)
             \o SortBuckets({x \in S : x[k] # CharsByCode[c]}, k, c + 1)

\* the elements of S in descending order
DescendingList(S) ==
    [pos \in 1..Cardinality(S) |->
        CHOOSE x \in S : Cardinality({y \in S : StrLess(x, y)}) = pos - 1]

\* list(S) followed by list.sort(): the elements of S in ascending order
SortedList(S) == SortFrom(S, 1)

\* the integer nearest to n / d for d > 0, a tie going to the even one, as
\* Python's round() does: round(x, 2) in hundredths is RoundDiv of 100 * x
RoundDiv(n, d) ==
    LET a == IF n < 0 THEN 0 - n ELSE n
        q == a \div d
        r == a % d
        m == IF 2 * r > d \/ (2 * r = d /\ q % 2 = 1) THEN q + 1 ELSE q
    IN  IF n < 0 THEN 0 - m ELSE m

RECURSIVE SumLen(_)
\* len(all_keywords) of calculate_statistics, lines 333-336
SumLen(query_results) ==
    IF query_results = <<>> THEN 0
    ELSE Len(Head(query_results)) + SumLen(Tail(query_results))

\* DataProcessor.calculate_statistics (the average in hundredths)
calculate_statistics(query_results) ==
    LET total_queries      == Len(query_results)
        successful_queries == Cardinality({q \in DOMAIN query_results :
                                              query_results[q] # <<>>})
        total_keywords_found == SumLen(query_results)
        all_keywords       == UNION {Range(query_results[q]) : q \in DOMAIN query_results}
    IN  [total_queries |-> total_queries,
         successful_queries |-> successful_queries,
         failed_queries |-> total_queries - successful_queries,
         total_keywords_found |-> total_keywords_found,
         unique_keywords |-> Cardinality(all_keywords),
         average_suggestions_per_query |->
             IF successful_queries > 0
             THEN RoundDiv(total_keywords_found * 100, successful_queries)
             ELSE 0]

\* DataProcessor.create_keyword_data on the given day (execution_time and
\* execution_duration, which no decision depends on, are left out)
create_keyword_data(main_keyword, query_results, day) ==
    LET statistics == calculate_statistics(query_results)
    IN  [main_keyword |-> main_keyword,
         execution_date |-> day,
         total_queries |-> statistics.total_queries,
         successful_queries |-> statistics.successful_queries,
         failed_queries |-> statistics.failed_queries,
         total_keywords_found |-> statistics.total_keywords_found,
         unique_keywords |-> statistics.unique_keywords,
         average_suggestions_per_query |-> statistics.average_suggestions_per_query,
         query_results |-> query_results]

\* the KeywordData that stands for None
NoKeywordData ==
    [main_keyword |-> <<>>, execution_date |-> None, total_queries |-> 0,
     successful_queries |-> 0, failed_queries |-> 0, total_keywords_found |-> 0,
     unique_keywords |-> 0, average_suggestions_per_query |-> 0,
     query_results |-> <<>>]

EmptyMetadata ==
    [main_keyword |-> <<>>, execution_date |-> None, total_queries |-> 0,
     successful_queries |-> 0, failed_queries |-> 0]

EmptyStatistics ==
    [total_keywords_found |-> 0, unique_keywords |-> 0,
     average_suggestions_per_query |-> 0, queries_with_results |-> 0,
     empty_queries |-> 0]

\* a file of the data directory: none, one cut short while it was written,
\* or a complete snapshot
AbsentFile == [state |-> "absent", metadata |-> EmptyMetadata, query_results |-> <<>>,
               statistics |-> EmptyStatistics]
PartialFile == [state |-> "partial", metadata |-> EmptyMetadata, query_results |-> <<>>,
                statistics |-> EmptyStatistics]
\* save_keyword_data, lines 83-106: save_data, the content written for
\* keyword_data
SnapshotFile(keyword_data) ==
    [state |-> "ok",
     metadata |-> [main_keyword |-> keyword_data.main_keyword,
                   execution_date |-> keyword_data.execution_date,
                   total_queries |-> keyword_data.total_queries,
                   successful_queries |-> keyword_data.successful_queries,
                   failed_queries |-> keyword_data.failed_queries],
     query_results |-> keyword_data.query_results,
     statistics |-> [total_keywords_found |-> keyword_data.total_keywords_found,
                     unique_keywords |-> keyword_data.unique_keywords,
                     average_suggestions_per_query |->
                         keyword_data.average_suggestions_per_query,
                     queries_with_results |->
                         Cardinality({q \in DOMAIN keyword_data.query_results :
                                         keyword_data.query_results[q] # <<>>}),
                     empty_queries |->
                         Cardinality({q \in DOMAIN keyword_data.query_results :
                                         keyword_data.query_results[q] = <<>>})]]

\* load_keyword_data: the KeywordData read from a file, or None (loaded
\* FALSE) when open or json.load raises
load_keyword_data(file) ==
    IF file.state = "ok"
    THEN [loaded |-> TRUE,
          data |-> [main_keyword |-> file.metadata.main_keyword,
                    execution_date |-> file.metadata.execution_date,
                    total_queries |-> file.metadata.total_queries,
                    successful_queries |-> file.metadata.successful_queries,
                    failed_queries |-> file.metadata.failed_queries,
                    total_keywords_found |-> file.statistics.total_keywords_found,
                    unique_keywords |-> file.statistics.unique_keywords,
                    average_suggestions_per_query |->
                        file.statistics.average_suggestions_per_query,
                    query_results |-> file.query_results]]
    ELSE [loaded |-> FALSE, data |-> NoKeywordData]

\* DataProcessor.extract_all_keywords: the stripped suggestions that are
\* not blank
extract_all_keywords(keyword_data) ==
    LET query_results == keyword_data.query_results
    IN  {Strip(s, Whitespace) :
            s \in {t \in UNION {Range(query_results[q]) : q \in DOMAIN query_results} :
                      Strip(t, Whitespace) # <<>>}}

\* the value that stands for "no ComparisonResult" (None)
NoComparison ==
    [exists |-> FALSE, main_keyword |-> <<>>, current_date |-> None,
     previous_date |-> None, new_keywords |-> <<>>, disappeared_keywords |-> <<>>,
     stable_keywords |-> <<>>, total_current |-> 0, total_previous |-> 0,
     new_count |-> 0, disappeared_count |-> 0, stable_count |-> 0, change_rate |-> 0]

\* the rate of the absolute difference
AbsoluteChangeRate(new_count, disappeared_count, total_previous) ==
    IF total_previous > 0
    THEN RoundDiv((IF new_count > disappeared_count
                   THEN new_count - disappeared_count
                   ELSE disappeared_count - new_count) * 10000, total_previous)
    ELSE 0

\* compare_keyword_data, lines 140-146: the change rate in hundredths of a
\* percent
change_rate_of(new_count, disappeared_count, total_previous) ==
    IF total_previous > 0
    THEN RoundDiv((new_count - disappeared_count) * 10000, total_previous)
    ELSE 0

\* all of A, whatever B holds
KeywordsOf(A, B) == A

\* compare_keyword_data, lines 131-132: the set difference A - B
KeywordsOnlyIn(A, B) == A \ B

\* CompareAnalyzer.compare_keyword_data
compare_keyword_data(current_data, previous_data) ==
    LET current_keywords  == extract_all_keywords(current_data)
        previous_keywords == extract_all_keywords(previous_data)
        new_keywords         == SortedList(KeywordsOnlyIn(current_keywords, previous_keywords))
        disappeared_keywords == SortedList(KeywordsOnlyIn(previous_keywords, current_keywords))
        stable_keywords      == SortedList(current_keywords \cap previous_keywords)
        total_previous       == Cardinality(previous_keywords)
    IN  [exists |-> TRUE,
         main_keyword |-> current_data.main_keyword,
         current_date |-> current_data.execution_date,
         previous_date |-> previous_data.execution_date,
         new_keywords |-> new_keywords,
         disappeared_keywords |-> disappeared_keywords,
         stable_keywords |-> stable_keywords,
         total_current |-> Cardinality(current_keywords),
         total_previous |-> total_previous,
         new_count |-> Len(new_keywords),
         disappeared_count |-> Len(disappeared_keywords),
         stable_count |-> Len(stable_keywords),
         change_rate |-> change_rate_of(Len(new_keywords), Len(disappeared_keywords),
                                        total_previous)]

\* run_single_keyword, line 130: "if not results"
AlwaysSomeResults(res) == FALSE

NoResultsReturned(res) == res = <<>>

\* the file of a keyword on a day: YYYY-MM-DD_<sanitized keyword>.json
FileKey(day, main_keyword) == <<day, _sanitize_filename(main_keyword)>>

\* the previous day's file as get_previous_day_data finds it
PreviousFile(day, main_keyword) ==
    IF FileKey(day - 1, main_keyword) \in DOMAIN snapshots
    THEN snapshots[FileKey(day - 1, main_keyword)]
    ELSE AbsentFile

\* DataProcessor.get_previous_day_data(main_keyword, current_date)
get_previous_day_data(main_keyword, current_date) ==
    load_keyword_data(PreviousFile(current_date, main_keyword))

RunBusy == run_pc \in {"session", "executed", "saved", "compared"}

\* run_single_keyword, lines 92-114: the components are built and the
\* queries generated from the keyword as it is
RunStart(s) ==
    /\ ~RunBusy
    /\ s \in keywords
    /\ run_seed' = s
    /\ run_pc' = "session"
    /\ run_results' = <<>>
    /\ run_date' = today
    /\ run_cmp' = NoComparison
    /\ run_ret' = "none"
    /\ run_fetched' = FALSE
    /\ wrote_snapshot' = FALSE
    /\ wrote_change' = FALSE
    /\ run_load' = "none"
    /\ UNCHANGED <<keywords, today, snapshots, changes>>
    /\ UNCHANGED outsideRun

\* lines 121-128: the session executes the queries (the requests are sent)
\* and returns the map res
ExecuteQueries(res) ==
    /\ run_pc = "session"
    /\ run_results' = res
    /\ run_fetched' = TRUE
    /\ run_pc' = "executed"
    /\ UNCHANGED <<keywords, today, snapshots, changes, run_seed, run_date, run_cmp,
                   run_ret, wrote_snapshot, wrote_change, run_load>>
    /\ UNCHANGED outsideRun

\* lines 130-137: no result, error notification, return False
RunNoResults ==
    /\ run_pc = "executed"
    /\ NoResultsReturned(run_results)
    /\ run_ret' = "False"
    /\ run_pc' = "returned"
    /\ UNCHANGED <<keywords, today, snapshots, changes, run_seed, run_results, run_date,
                   run_cmp, run_fetched, wrote_snapshot, wrote_change, run_load>>
    /\ UNCHANGED outsideRun

\* lines 142-149: create_keyword_data (the date is read) and save_keyword_data
SaveSnapshot ==
    /\ run_pc = "executed"
    /\ ~NoResultsReturned(run_results)
    /\ run_date' = today
    /\ LET keyword_data == create_keyword_data(run_seed, run_results, today)
       IN  snapshots' = [snapshots EXCEPT ![FileKey(today, run_seed)] =
                            SnapshotFile(keyword_data)]
    /\ wrote_snapshot' = TRUE
    /\ run_pc' = "saved"
    /\ UNCHANGED <<keywords, today, changes, run_seed, run_results, run_cmp,
                   run_ret, run_fetched, wrote_change, run_load>>
    /\ UNCHANGED outsideRun

\* save_keyword_data, lines 108-115: the write fails after open() has
\* truncated the file (I/O error, or the user's interrupt); the exception
\* reaches run_single_keyword, lines 177-189, which returns False
SaveSnapshotFails ==
    /\ run_pc = "executed"
    /\ ~NoResultsReturned(run_results)
    /\ run_date' = today
    /\ snapshots' = [snapshots EXCEPT ![FileKey(today, run_seed)] = PartialFile]
    /\ wrote_snapshot' = TRUE
    /\ run_ret' = "False"
    /\ run_pc' = "returned"
    /\ UNCHANGED <<keywords, today, changes, run_seed, run_results, run_cmp,
                   run_fetched, wrote_change, run_load>>
    /\ UNCHANGED outsideRun

\* line 152: compare_with_previous_day, get_previous_day_data, load_keyword_data
ComparePrevious ==
    /\ run_pc = "saved"
    /\ LET file     == PreviousFile(run_date, run_seed)
           previous == get_previous_day_data(run_seed, run_date)
           keyword_data == create_keyword_data(run_seed, run_results, run_date)
       IN  /\ run_load' = IF file.state = "absent" THEN "absent"
                          ELSE IF previous.loaded THEN "ok" ELSE "failed"
           /\ run_cmp' = IF previous.loaded
                         THEN compare_keyword_data(keyword_data, previous.data)
                         ELSE NoComparison
    /\ run_pc' = "compared"
    /\ UNCHANGED <<keywords, today, snapshots, changes, run_seed, run_results, run_date,
                   run_ret, run_fetched, wrote_snapshot, wrote_change>>
    /\ UNCHANGED outsideRun

\* lines 154-175: save_comparison_result if there is a comparison, the
\* report, the success notification, return True
FinishRun ==
    /\ run_pc = "compared"
    /\ IF run_cmp.exists
       THEN /\ changes' = [changes EXCEPT ![FileKey(run_date, run_seed)] = run_cmp]
            /\ wrote_change' = TRUE
       ELSE UNCHANGED <<changes, wrote_change>>
    /\ run_ret' = "True"
    /\ run_pc' = "returned"
    /\ UNCHANGED <<keywords, today, snapshots, run_seed, run_results, run_date, run_cmp,
                   run_fetched, wrote_snapshot, run_load>>
    /\ UNCHANGED outsideRun

\* lines 177-180: KeyboardInterrupt during the run, return False
RunInterrupt ==
    /\ RunBusy
    /\ run_ret' = "False"
    /\ run_pc' = "returned"
    /\ UNCHANGED <<keywords, today, snapshots, changes, run_seed, run_results, run_date,
                   run_cmp, run_fetched, wrote_snapshot, wrote_change, run_load>>
    /\ UNCHANGED outsideRun

\* midnight: datetime.now() gives the next date
NextDay ==
    /\ today < MaxDay
    /\ today' = today + 1
    /\ UNCHANGED <<keywords, snapshots, changes, run_pc, run_seed, run_results, run_date,
                   run_cmp, run_ret, run_fetched, wrote_snapshot, wrote_change, run_load>>
    /\ UNCHANGED outsideRun

\* KeywordMonitor.__init__ / DataProcessor.__init__ with an empty data
\* directory, for the keyword list ks
InitRunWith(ks) ==
    /\ keywords = ks
    /\ today = 0
    /\ snapshots = [f \in (0..MaxDay) \X {_sanitize_filename(s) : s \in ks} |-> AbsentFile]
    /\ changes = [f \in (0..MaxDay) \X {_sanitize_filename(s) : s \in ks} |-> NoComparison]
    /\ run_pc = "idle"
    /\ run_seed = <<>>
    /\ run_results = <<>>
    /\ run_date = 0
    /\ run_cmp = NoComparison
    /\ run_ret = "none"
    /\ run_fetched = FALSE
    /\ wrote_snapshot = FALSE
    /\ wrote_change = FALSE
    /\ run_load = "none"

NextRun ==
    \/ \E s \in Keywords : RunStart(s)
    \/ \E res \in ResultMaps : ExecuteQueries(res)
    \/ RunNoResults
    \/ SaveSnapshot
    \/ SaveSnapshotFails
    \/ ComparePrevious
    \/ FinishRun
    \/ RunInterrupt
    \/ NextDay

\* ------------------------------------------------------------------------
\* Single calls of compare_keyword_data and of its change rate
\* ------------------------------------------------------------------------
\* a snapshot holds at most MaxMapLen queries
MaxMapLen == 2
\* the counts of the change rate are 0..MaxCount, or total_previous is
\* LargePrevious
MaxCount == 3
LargePrevious == 20001

\* the lists of suggestions a query gets: plain, with surrounding
\* whitespace, blank, in upper case
SuggestionLists ==
    { << <<"a">> >>,
      << <<"b">>, <<"a">> >>,
      << <<" ", "a">>, <<"B">> >>,
      << <<" ">> >>,
      << <<"a", "b">>, <<"c">> >> }

\* the query_results of a stored snapshot: at least one query, each with
\* suggestions
CompareMaps == UNION {[1..n -> SuggestionLists] : n \in 1..MaxMapLen}

\* the snapshots compared
SnapshotPool ==
    {create_keyword_data(<<"a">>, m, d) : m \in CompareMaps, d \in 0..MaxDay}

\* the arguments of the change rate: disappeared keywords are previous ones
RateArgs ==
    {a \in (0..MaxCount) \X (0..MaxCount) \X ((0..MaxCount) \cup {LargePrevious}) :
        a[2] <= a[3]}

\* one call of compare_keyword_data
CompareSnapshots ==
    /\ ~cmp_done
    /\ cmp_call' = [cmp_call EXCEPT
                       !.result = compare_keyword_data(cmp_current, cmp_previous),
                       !.done = TRUE]
    /\ UNCHANGED <<rate_call, gen_call, counters>>
    /\ UNCHANGED outsideCalls

\* compare_keyword_data, lines 140-146, for given counts
ComputeChangeRate ==
    /\ ~rate_done
    /\ rate_call' = [rate_call EXCEPT
                        !.result = change_rate_of(rate_args[1], rate_args[2], rate_args[3]),
                        !.done = TRUE]
    /\ UNCHANGED <<cmp_call, gen_call, counters>>
    /\ UNCHANGED outsideCalls

\* the arguments of a call of compare_keyword_data
InitCompareWith(cur, prev) ==
    cmp_call = [current |-> cur, previous |-> prev, result |-> NoComparison,
                done |-> FALSE]

\* the counts the change rate is computed from
InitRateWith(args) ==
    rate_call = [args |-> args, done |-> FALSE, result |-> 0]

\* compare_keyword_data is not called
CompareAtRest ==
    /\ cmp_call = None
    /\ rate_call = None

NextCompare == CompareSnapshots

NextChangeRate == ComputeChangeRate

\* ------------------------------------------------------------------------
\* QueryGenerator
\* ------------------------------------------------------------------------
\* the seeds given to the generator
SeedPool == {<<"a">>, <<"a", "a">>, <<"a", " ", "b">>, <<"B", "a">>}

\* search_settings: the four toggles the generator reads
SearchSettings ==
    [include_single_letters : BOOLEAN, include_double_letters : BOOLEAN,
     include_suffix : BOOLEAN, include_prefix : BOOLEAN]

\* QueryGenerator.__init__, lines 26-32: the default search_settings
DefaultSettings ==
    [include_single_letters |-> TRUE, include_double_letters |-> TRUE,
     include_suffix |-> TRUE, include_prefix |-> TRUE]

\* the letters of _generate_single_letter_queries, line 67
SingleLetters == [k \in 1..Len(ascii_lowercase) |-> <<ascii_lowercase[k]>>]

\* the double letters of _generate_double_letter_queries, lines 85-87
DoubleLetters ==
    [k \in 1..(Len(ascii_lowercase) * Len(ascii_lowercase)) |->
        <<ascii_lowercase[((k - 1) \div Len(ascii_lowercase)) + 1],
          ascii_lowercase[((k - 1) % Len(ascii_lowercase)) + 1]>>]

\* the loop body with the prefix toggle ignored
ExpandSuffixOnly(main_keyword, letters, search_settings) ==
    [k \in 1..(IF search_settings.include_suffix THEN Len(letters) ELSE 0) |->
        main_keyword \o <<" ">> \o letters[k]]

\* the loop of lines 67-74 and of lines 85-96: for each letter (or double
\* letter) in turn, "<keyword> <letter>" if include_suffix, then
\* "<letter> <keyword>" if include_prefix
ExpandWith(main_keyword, letters, search_settings) ==
    LET per == (IF search_settings.include_suffix THEN 1 ELSE 0)
                 + (IF search_settings.include_prefix THEN 1 ELSE 0)
    IN  [k \in 1..(Len(letters) * per) |->
            LET letter == letters[((k - 1) \div per) + 1]
            IN  IF search_settings.include_suffix /\ (k - 1) % per = 0
                THEN main_keyword \o <<" ">> \o letter
                ELSE letter \o <<" ">> \o main_keyword]

\* QueryGenerator._generate_single_letter_queries
_generate_single_letter_queries(main_keyword, search_settings) ==
    ExpandWith(main_keyword, SingleLetters, search_settings)

\* QueryGenerator._generate_double_letter_queries
_generate_double_letter_queries(main_keyword, search_settings) ==
    ExpandWith(main_keyword, DoubleLetters, search_settings)

\* generate_all_queries, lines 43-53: queries, before deduplication
queries_built(main_keyword, search_settings) ==
    <<main_keyword>>
        \o (IF search_settings.include_single_letters
            THEN _generate_single_letter_queries(main_keyword, search_settings)
            ELSE <<>>)
        \o (IF search_settings.include_double_letters
            THEN _generate_double_letter_queries(main_keyword, search_settings)
            ELSE <<>>)

\* the list as built, neither deduplicated nor sorted
GenerateWithoutSort(main_keyword, search_settings) ==
    queries_built(main_keyword, search_settings)

\* QueryGenerator.generate_all_queries: list(set(queries)), sorted
generate_all_queries(main_keyword, search_settings) ==
    SortedList(Range(queries_built(main_keyword, search_settings)))

\* QueryGenerator.get_query_statistics
get_query_statistics(search_settings) ==
    LET single == search_settings.include_single_letters
        double == search_settings.include_double_letters
        suffix == search_settings.include_suffix
        prefix == search_settings.include_prefix
        base_query           == 1
        single_letter_suffix == IF single /\ suffix THEN 26 ELSE 0
        single_letter_prefix == IF single /\ prefix THEN 26 ELSE 0
        double_letter_suffix == IF double /\ suffix THEN 676 ELSE 0
        double_letter_prefix == IF double /\ prefix THEN 676 ELSE 0
        total_before         == 1
        sum_of_values        == base_query + single_letter_suffix + single_letter_prefix
                                  + double_letter_suffix + double_letter_prefix
                                  + total_before
    IN  [base_query |-> base_query,
         single_letter_suffix |-> single_letter_suffix,
         single_letter_prefix |-> single_letter_prefix,
         double_letter_suffix |-> double_letter_suffix,
         double_letter_prefix |-> double_letter_prefix,
         total |-> (sum_of_values - total_before) + 1]

\* the dict before get_query_statistics has returned
NoStatistics ==
    [base_query |-> 0, single_letter_suffix |-> 0, single_letter_prefix |-> 0,
     double_letter_suffix |-> 0, double_letter_prefix |-> 0, total |-> 0]

\* one call of generate_all_queries(gen_seed)
GenerateAllQueries ==
    /\ ~gen_called
    /\ gen_call' = [gen_call EXCEPT
                       !.queries = queries_built(gen_seed, gen_settings),
                       !.result = generate_all_queries(gen_seed, gen_settings),
                       !.called = TRUE]
    /\ UNCHANGED <<cmp_call, rate_call, counters>>
    /\ UNCHANGED outsideCalls

\* one call of get_query_statistics(gen_seed)
GetQueryStatistics ==
    /\ ~stats_called
    /\ gen_call' = [gen_call EXCEPT
                       !.stats = get_query_statistics(gen_settings),
                       !.stats_called = TRUE]
    /\ UNCHANGED <<cmp_call, rate_call, counters>>
    /\ UNCHANGED outsideCalls

\* QueryGenerator.__init__ with the given settings, for the seed given later
InitGenWith(seed, settings) ==
    gen_call = [seed |-> seed, settings |-> settings, called |-> FALSE,
                queries |-> <<>>, result |-> <<>>, stats_called |-> FALSE,
                stats |-> NoStatistics]

\* no QueryGenerator is in use
GenerateAtRest == gen_call = None

NextGenerate ==
    \/ GenerateAllQueries
    \/ GetQueryStatistics

\* ------------------------------------------------------------------------
\* GoogleSuggestAPI.search_suggestions called by the workers of the thread
\* pool (execute_queries_parallel, lines 305-310): the counters of
\* self.stats are read and written without a lock, so each "+=" is a read
\* followed by a write
\* ------------------------------------------------------------------------
\* at most MaxRequests calls of search_suggestions are made
MaxRequests == 3
\* a request returns at most MaxFound suggestions
MaxFound == 1

\* self.stats[counter] += n, second half: the value read plus n is stored
StoreCounter(counter, loaded, n) == [stats EXCEPT ![counter] = loaded + n]

\* search_suggestions is called; line 58, first half: total_requests is read
SearchSuggestionsCall(w) ==
    /\ spc[w] = "idle"
    /\ ncalls < MaxRequests
    /\ counters' = [counters EXCEPT !.ncalls = @ + 1,
                                    !.load[w] = stats.total_requests,
                                    !.pc[w] = "total"]
    /\ UNCHANGED stats
    /\ UNCHANGED outsideCounters

\* line 58, second half: total_requests is written; line 61: the request
\* is sent
StoreTotalRequests(w) ==
    /\ spc[w] = "total"
    /\ stats' = StoreCounter("total_requests", sload[w], 1)
    /\ counters' = [counters EXCEPT !.pc[w] = "fetching"]
    /\ UNCHANGED outsideCounters

\* lines 61-64: n > 0 suggestions are returned; successful_requests is read
FetchSucceeds(w, n) ==
    /\ spc[w] = "fetching"
    /\ n > 0
    /\ counters' = [counters EXCEPT !.found[w] = n,
                                    !.load[w] = stats.successful_requests,
                                    !.pc[w] = "successful"]
    /\ UNCHANGED stats
    /\ UNCHANGED outsideCounters

\* line 64, second half: successful_requests is written
StoreSuccessfulRequests(w) ==
    /\ spc[w] = "successful"
    /\ stats' = StoreCounter("successful_requests", sload[w], 1)
    /\ counters' = [counters EXCEPT !.pc[w] = "found"]
    /\ UNCHANGED outsideCounters

\* line 65, first half: total_suggestions is read
LoadTotalSuggestions(w) ==
    /\ spc[w] = "found"
    /\ counters' = [counters EXCEPT !.load[w] = stats.total_suggestions,
                                    !.pc[w] = "suggestions"]
    /\ UNCHANGED stats
    /\ UNCHANGED outsideCounters

\* line 65, second half: total_suggestions is written; line 71: return
StoreTotalSuggestions(w) ==
    /\ spc[w] = "suggestions"
    /\ stats' = StoreCounter("total_suggestions", sload[w], sfound[w])
    /\ counters' = [counters EXCEPT !.pc[w] = "idle"]
    /\ UNCHANGED outsideCounters

\* lines 61-68: no suggestion is returned; failed_requests is read
FetchFails(w) ==
    /\ spc[w] = "fetching"
    /\ counters' = [counters EXCEPT !.found[w] = 0,
                                    !.load[w] = stats.failed_requests,
                                    !.pc[w] = "failed"]
    /\ UNCHANGED stats
    /\ UNCHANGED outsideCounters

\* line 68, second half: failed_requests is written; line 71: return
StoreFailedRequests(w) ==
    /\ spc[w] = "failed"
    /\ stats' = StoreCounter("failed_requests", sload[w], 1)
    /\ counters' = [counters EXCEPT !.pc[w] = "idle"]
    /\ UNCHANGED outsideCounters

\* the workers of a new pool: none is inside search_suggestions
InitCounters ==
    counters = [pc |-> [w \in Workers |-> "idle"], load |-> [w \in Workers |-> 0],
                found |-> [w \in Workers |-> 0], ncalls |-> 0]

\* there is no thread pool
CountersAtRest == counters = None

NextCounters ==
    \/ \E w \in Workers : SearchSuggestionsCall(w)
    \/ \E w \in Workers : StoreTotalRequests(w)
    \/ \E w \in Workers : \E n \in 1..MaxFound : FetchSucceeds(w, n)
    \/ \E w \in Workers : StoreSuccessfulRequests(w)
    \/ \E w \in Workers : LoadTotalSuggestions(w)
    \/ \E w \in Workers : StoreTotalSuggestions(w)
    \/ \E w \in Workers : FetchFails(w)
    \/ \E w \in Workers : StoreFailedRequests(w)

\* ------------------------------------------------------------------------
\* Specifications
\* ------------------------------------------------------------------------
\* no keyword is being monitored
RunAtRest == InitRunWith({})

\* no single call is being made
CallsAtRest ==
    /\ CompareAtRest
    /\ GenerateAtRest
    /\ CountersAtRest

\* the delay manager of an AntiSpiderManager built with default request settings
DefaultDelay == InitDelayWith(<<1, 3>>, TRUE)

\* the proxy pool under concurrent callers, the executor at rest
PoolInit ==
    /\ \E n \in 0..MaxProxies : InitPoolWith(n)
    /\ InitExecWith(QuietEndpoint)
    /\ DefaultDelay
    /\ RunAtRest
    /\ CallsAtRest

SpecPool == PoolInit /\ [][NextPool]_vars

\* the executor (it never uses the proxy pool, which is at rest, empty)
ExecInit ==
    /\ InitPoolWith(0)
    /\ \E r \in Endpoints : InitExecWith(r)
    /\ DefaultDelay
    /\ RunAtRest
    /\ CallsAtRest

SpecExec == ExecInit /\ [][NextExec]_vars

SpecSequential == ExecInit /\ [][NextSequential]_vars

SpecParallel == ExecInit /\ [][NextParallel]_vars

\* async mode with the event loop and the network making progress: a
\* coroutine that can continue does, and every request gets its response
\* or its timeout
AsyncFairness ==
    \A q \in Queries :
        /\ WF_vars(AsyncAcquire(q))
        /\ WF_vars(AsyncSend(q))
        /\ WF_vars(AsyncRecv(q))

FairSpecAsync == ExecInit /\ [][NextAsync]_vars /\ AsyncFairness

\* the delay manager (no proxy pool is configured, the executor is at rest)
DelayInit ==
    /\ InitPoolWith(0)
    /\ InitExecWith(QuietEndpoint)
    /\ \E b \in BaseDelays, d \in BOOLEAN : InitDelayWith(b, d)
    /\ RunAtRest
    /\ CallsAtRest

SpecDelay == DelayInit /\ [][NextDelay]_vars

SpecDelayRace == DelayInit /\ [][NextDelayRace]_vars

\* the delay manager whose requests keep succeeding once they stop failing:
\* an on_success call that changes anything is eventually made
SuccessFairness == WF_vars(on_success)

FairSpecDelay == DelayInit /\ [][NextDelay]_vars /\ SuccessFairness

\* the monitoring runs, one at a time (the executor is summarised by the
\* map it returns; pool, executor and delay manager are at rest)
RunInit ==
    /\ InitPoolWith(0)
    /\ InitExecWith(QuietEndpoint)
    /\ DefaultDelay
    /\ \E ks \in KeywordSets : InitRunWith(ks)
    /\ CallsAtRest

SpecRun == RunInit /\ [][NextRun]_vars

\* everything but the single calls is at rest
ComponentsAtRest ==
    /\ InitPoolWith(0)
    /\ InitExecWith(QuietEndpoint)
    /\ DefaultDelay
    /\ RunAtRest

\* compare_keyword_data applied to every pair of snapshots
CompareInit ==
    /\ ComponentsAtRest
    /\ \E cur \in SnapshotPool, prev \in SnapshotPool : InitCompareWith(cur, prev)
    /\ rate_call = None
    /\ GenerateAtRest
    /\ CountersAtRest

SpecCompare == CompareInit /\ [][NextCompare]_vars

\* the change rate for every triple of counts
ChangeRateInit ==
    /\ ComponentsAtRest
    /\ cmp_call = None
    /\ \E args \in RateArgs : InitRateWith(args)
    /\ GenerateAtRest
    /\ CountersAtRest

SpecChangeRate == ChangeRateInit /\ [][NextChangeRate]_vars

\* the generator for every seed and every setting of the toggles
GenerateInit ==
    /\ ComponentsAtRest
    /\ CompareAtRest
    /\ \E seed \in SeedPool, settings \in SearchSettings : InitGenWith(seed, settings)
    /\ CountersAtRest

SpecGenerate == GenerateInit /\ [][NextGenerate]_vars

\* the workers of the thread pool calling search_suggestions
CountersInit ==
    /\ ComponentsAtRest
    /\ CompareAtRest
    /\ GenerateAtRest
    /\ InitCounters

SpecCounters == CountersInit /\ [][NextCounters]_vars

\* ------------------------------------------------------------------------
\* Properties of the proxy pool (checked under SpecPool)
\* ------------------------------------------------------------------------

\* C1, as stated: once a proxy has had 3 failure reports with no success
\* report in between, get_working_proxy does not return it while less than
\* the cooldown has elapsed since its last_used.
C1_NotReturnedAfterThreeFailures ==
    [][\A p \in Proxies :
          (last'.op = "get" /\ last'.proxy = p)
          => ~(consec[p] >= max_failures /\ now - last_used[p] < cooldown_minutes)]_vars

\* C1, amended: while a proxy's failure counter is at or above the threshold
\* and less than the cooldown has elapsed since its last_used,
\* get_working_proxy does not return it.
C1_NotReturnedInCooldown ==
    [][\A p \in Proxies :
          (last'.op = "get" /\ last'.proxy = p)
          => ~(failure_count[p] >= max_failures /\ now - last_used[p] < cooldown_minutes)]_vars

\* a scan has passed over a proxy that is at the threshold and in cooldown
C1_Witness ==
    /\ last.op = "get"
    /\ \E p \in last.seen :
         /\ failure_count[p] >= max_failures
         /\ now - last_used[p] < cooldown_minutes
         /\ last.proxy # p

\* C2: a proxy at the failure threshold gets one retry: once its cooldown
\* has elapsed, the next get_working_proxy call whose scan reaches it
\* returns it.
C2_RetryAfterCooldown ==
    [][last'.op = "get"
       => \A p \in last'.seen :
            (failure_count[p] >= max_failures /\ now - last_used[p] >= cooldown_minutes)
            => last'.proxy = p]_vars

\* C3: when get_working_proxy examines a proxy whose failure counter is at
\* or above the threshold and whose cooldown has elapsed, the counter is
\* reset to 0, whatever was reported before.
C3_CounterResetAfterCooldown ==
    [][last'.op = "get"
       => \A p \in last'.seen :
            (failure_count[p] >= max_failures /\ now - last_used[p] >= cooldown_minutes)
            => failure_count'[p] = 0]_vars

\* a scan has examined a proxy at the threshold after its cooldown, and the
\* proxy has had no success report since its failures
C3_Witness ==
    /\ last.op = "get"
    /\ \E p \in last.seen : cooled[p] /\ consec[p] >= max_failures /\ failure_count[p] = 0

\* C4, as stated: a success report sets the counter to 0 and marks the proxy
\* working; a proxy goes from working to non-working only at a failure
\* report that is the 3rd consecutive failure since the last success.
C4_NonWorkingAtThirdFailure ==
    [][\A p \in Proxies :
          /\ (last'.op = "success" /\ last'.proxy = p)
             => (failure_count'[p] = 0 /\ is_working'[p])
          /\ (is_working[p] /\ ~is_working'[p])
             => (last'.op = "failed" /\ last'.proxy = p /\ consec'[p] = max_failures)]_vars

\* C4, amended: a success report sets the counter to 0 and marks the proxy
\* working; a proxy goes from working to non-working only at a failure
\* report that is the 3rd consecutive failure since the last success, the
\* last reset of its counter after a cooldown, or its creation.
C4_NonWorkingAtThirdFailureSinceReset ==
    [][\A p \in Proxies :
          /\ (last'.op = "success" /\ last'.proxy = p)
             => (failure_count'[p] = 0 /\ is_working'[p])
          /\ (is_working[p] /\ ~is_working'[p])
             => (last'.op = "failed" /\ last'.proxy = p /\ streak'[p] = max_failures)]_vars

\* a proxy has just been marked non-working by the 3rd failure since a
\* cooldown reset, with more than 3 failures since its last success
C4_Witness ==
    /\ last.op = "failed"
    /\ ~is_working[last.proxy]
    /\ streak[last.proxy] = max_failures
    /\ consec[last.proxy] > max_failures

\* ------------------------------------------------------------------------
\* Properties of the executor (checked under SpecExec and FairSpecExec)
\* ------------------------------------------------------------------------

\* a request for query q, language l is sent in this step
Sends(q, l) == sent'[q][l] > sent[q][l]

\* C5: in worker-pool mode, after stop_execution() has set the stop signal
\* no request is started for a query that had not been dispatched by then,
\* and no dispatched query is fetched a second time.
C5_ParallelStopNoNewDispatch ==
    [][\A q \in Queries, l \in Langs :
          (mode = "parallel" /\ stop_during /\ Sends(q, l))
          => (q \in stop_disp /\ sent[q][l] = 0)]_vars

\* the pool was stopped with one query dispatched and another not: the first
\* was fetched once, the other never
C5_Witness ==
    /\ mode = "parallel"
    /\ stop_during
    /\ pc = "shutdown"
    /\ \E q \in stop_disp : sent[q][1] = 1
    /\ \E q \in Queries \ stop_disp : sent[q][1] = 0 /\ future[q] \in {"finished", "cancelled"}

\* C6, as stated: in sequential mode, once stop_execution() has been called,
\* before the batch begins or while it runs, no request is sent for a query
\* other than the one in progress at that moment.
C6_SequentialStopAnyTime ==
    [][\A q \in Queries, l \in Langs :
          (mode = "sequential" /\ stop_called /\ Sends(q, l))
          => (q \in stop_disp /\ pc = "query" /\ tq[0] = q)]_vars

\* C6, amended: in sequential mode, once stop_execution() has been called
\* while the batch runs, no request is sent for a query other than the one
\* in progress at that moment.
C6_SequentialStopWhileRunning ==
    [][\A q \in Queries, l \in Langs :
          (mode = "sequential" /\ stop_during /\ Sends(q, l))
          => (q \in stop_disp /\ pc = "query" /\ tq[0] = q)]_vars

\* the batch was stopped while it ran and has left its loop with a query
\* that was never fetched
C6_Witness ==
    /\ mode = "sequential"
    /\ stop_during
    /\ pc = "finally"
    /\ \E q \in stop_disp : sent[q][1] = 1
    /\ \E q \in Queries : sent[q][1] = 0

\* C7: in async mode, after the stop signal is set, no further request is
\* sent and the requests in flight are aborted, not awaited.
C7_AsyncStopAborts ==
    [][(mode = "async" /\ stop_during)
       => /\ sent' = sent
          /\ \A q \in Queries : apc[q] = "inflight" => apc'[q] = "inflight"]_vars

\* the coroutines that hold the semaphore
Holders == {q \in Queries : apc[q] \in {"send", "inflight"}}

\* C8: in async mode at most concurrent_limit queries hold the semaphore at
\* any moment, a query acquires it only while fewer than concurrent_limit
\* hold it, and every query of the batch eventually runs to its end.
C8_AsyncBounded ==
    /\ [](mode = "async" => Cardinality(Holders) <= ConcurrentLimit)
    /\ [][\A q \in Queries :
            (mode = "async" /\ apc[q] = "waiting" /\ apc'[q] # "waiting")
            => Cardinality(Holders) < ConcurrentLimit]_vars
    /\ \A q \in Queries : (mode = "async" /\ apc[q] = "waiting") ~> (apc[q] = "done")

\* a query waits for the semaphore while another has its request in flight
C8_Witness ==
    /\ mode = "async"
    /\ sem = 0
    /\ \E q1, q2 \in Queries : apc[q1] = "inflight" /\ apc[q2] = "waiting"

\* the suggestion strings of key k in the result map of mode m
SuggestionSet(m, k) ==
    IF m = "sequential" THEN Range(out[m].val[k]) ELSE out[m].val[k]

\* C9: the three modes, run to the end on the same queries against the same
\* endpoint, return maps with the same keys and, per key, the same set of
\* suggestion strings.
C9_ModesAgree ==
    (\A m \in Modes : ran[m] = "clean")
    => \A m1, m2 \in Modes :
         /\ out[m1].keys = out[m2].keys
         /\ \A k \in out[m1].keys : SuggestionSet(m1, k) = SuggestionSet(m2, k)

\* C10: in sequential mode every request is preceded by a call of the
\* pacing wait() made after the previous request.
C10_SequentialPaced ==
    [][\A q \in Queries, l \in Langs :
          (mode = "sequential" /\ Sends(q, l)) => wait_calls > send_waits]_vars

\* ------------------------------------------------------------------------
\* Properties of the progress callback (checked under SpecExec)
\* ------------------------------------------------------------------------

\* C11: in a batch that is not cut short by a stop signal or an interrupt,
\* whatever the mode, the k-th call of the progress callback reports
\* completed = k and total = n, and when the batch has returned the callback
\* was called exactly n times, once for each query, whether or not the
\* query had suggestions.
C11_ProgressOncePerQuery ==
    ~cut =>
        /\ \A k \in 1..Len(progress) :
               /\ progress[k].completed = k
               /\ progress[k].total = NumQueries
        /\ \A k, l \in 1..Len(progress) :
               progress[k].query = progress[l].query => k = l
        /\ pc = "done" =>
               /\ Len(progress) = NumQueries
               /\ {progress[k].query : k \in 1..Len(progress)} = Queries

\* a batch has returned uncut with a query that failed and a query that
\* succeeded among its calls
C11_Witness ==
    /\ pc = "done"
    /\ ~cut
    /\ Len(progress) = NumQueries
    /\ \E q \in Queries : \A l \in Langs : _get_suggestions_chrome(reply[q][l]) = <<>>
    /\ \E q \in Queries : \E l \in Langs : _get_suggestions_chrome(reply[q][l]) # <<>>
    /\ \E m \in Modes : ran[m] = "clean"
\* ------------------------------------------------------------------------
\* Failure isolation within a batch (checked under SpecExec)
\* ------------------------------------------------------------------------

\* the endpoint has suggestions for q in some language
Succeeded(q) == \E l \in Langs : _get_suggestions_chrome(reply[q][l]) # <<>>

\* C12, as stated: when a batch that was not stopped has returned, in
\* whatever mode, every query was executed (its first request was sent)
\* although other queries failed, and the returned map has an entry for
\* every query for which the endpoint had suggestions.
C12_FailureNeverAbortsBatch ==
    (pc = "done" /\ ~cut) =>
        \A q \in Queries :
            /\ sent[q][1] >= 1
            /\ Succeeded(q) => q \in results.keys
\* ------------------------------------------------------------------------
\* Properties of the delay manager
\* ------------------------------------------------------------------------

\* C13, as stated (checked under SpecDelayRace): when the threads that
\* reported failures through make_request have all returned, and no
\* success was reported, consecutive_failures has grown by the number of
\* the reports and the window is the base window widened once per report.
C13_FailureReportsExclusive ==
    ((\A c \in Reporters : rpc[c] = "idle") /\ nsuccess = 0) =>
        /\ consecutive_failures = nfail
        /\ current_delay = ideal_delay

\* C14 (checked under SpecDelay): with dynamic delay enabled,
\* on_failure(status) replaces each bound x of the window by
\* min(x * m, 30), where m is 2.0 for the statuses 429 and 503 and 1.5 for
\* any other status or none; and if the base window is within the ceiling
\* of 30 seconds, no bound exceeds 30 seconds after any sequence of
\* on_success and on_failure calls.
C14_FailureWidensToCeiling ==
    [][ /\ (dlast'.op = "on_failure" /\ dynamic_delay) =>
              \A k \in 1..2 :
                  2 * current_delay'[k] =
                      Min(current_delay[k] * (IF dlast'.status \in {429, 503} THEN 4 ELSE 3),
                          2 * 30 * Scale)
        /\ (base_delay[1] <= 30 * Scale /\ base_delay[2] <= 30 * Scale) =>
              (current_delay'[1] <= 30 * Scale /\ current_delay'[2] <= 30 * Scale)
      ]_vars

\* a failure with status 429 has doubled the lower bound and brought the
\* upper bound to the ceiling, and a failure with another status has
\* multiplied a window by 1.5 before
C14_Witness ==
    /\ dynamic_delay
    /\ dlast.op = "on_failure"
    /\ dlast.status = 429
    /\ current_delay[1] = 2 * dlast.before[1]
    /\ dlast.before[1] > base_delay[1]
    /\ dlast.before[2] < 30 * Scale
    /\ current_delay[2] = 30 * Scale

\* C15, as stated (checked under SpecDelay): after any sequence of
\* on_success and on_failure calls each bound of the window is at least its
\* base value, and an on_success call made while both bounds are above
\* their base values lowers each bound by 0.5, stopping at the base value.
C15_NeverBelowBase ==
    [][ /\ current_delay'[1] >= base_delay[1]
        /\ current_delay'[2] >= base_delay[2]
        /\ (/\ dlast'.op = "on_success"
            /\ current_delay[1] > base_delay[1]
            /\ current_delay[2] > base_delay[2]) =>
              \A k \in 1..2 :
                  current_delay'[k] = Max(base_delay[k], current_delay[k] - Scale \div 2)
      ]_vars
\* ------------------------------------------------------------------------
\* Proxy exhaustion (checked under SpecPool)
\* ------------------------------------------------------------------------

\* proxy p cannot be handed out now: it is marked non-working, or it is at
\* the failure threshold and still in its cooldown
Ineligible(p) ==
    \/ ~is_working[p]
    \/ (failure_count[p] >= max_failures /\ now - last_used[p] < cooldown_minutes)

\* C16: a get_working_proxy call made when the pool is empty or every proxy
\* of it is ineligible returns None (the call completes, nothing is raised),
\* and the request parameters of the caller keep proxy_info = None: the
\* request goes out without a proxy.
C16_ExhaustionReturnsNone ==
    [][(last'.op = "get" /\ \A p \in Proxies : Ineligible(p))
       => /\ last'.proxy = None
          /\ \A c \in Callers : proxy_info[c] = None => proxy_info'[c] = None]_vars

\* a call has scanned a pool of at least one proxy, found every proxy
\* ineligible and returned None
C16_Witness ==
    /\ nproxies > 0
    /\ last.op = "get"
    /\ last.seen = Proxies
    /\ last.proxy = None
    /\ \A p \in Proxies : Ineligible(p)
    /\ \E c \in Callers : proxy_info[c] = None
\* ------------------------------------------------------------------------
\* Properties of the monitoring run (checked under SpecRun)
\* ------------------------------------------------------------------------

\* C17, as stated: run_single_keyword sends no request for a keyword that
\* validation rejects (empty, blank, longer than 100 characters, or with a
\* forbidden character).
C17_InvalidSeedNoRequest ==
    run_fetched => validate_keyword(run_seed).valid

\* C18: a run whose queries were executed and gave no result at all writes
\* neither a snapshot nor a change file and returns False.
C18_NoResultsNothingPersisted ==
    (run_fetched /\ run_results = <<>>) =>
        /\ ~wrote_snapshot
        /\ ~wrote_change
        /\ run_ret # "True"
        /\ run_pc = "returned" => run_ret = "False"

\* a run has returned False after its queries gave no result, on a day for
\* which an earlier run of the same keyword had left a snapshot
C18_Witness ==
    /\ run_pc = "returned"
    /\ run_fetched
    /\ run_results = <<>>
    /\ run_ret = "False"
    /\ ~wrote_snapshot
    /\ snapshots[FileKey(today, run_seed)].state = "ok"

\* C19, as stated: a run in which the previous day's snapshot exists but
\* cannot be loaded is not reported successful.
C19_LoadFailureIsFatal ==
    (run_pc = "returned" /\ run_load = "failed") => run_ret = "False"

\* C20, as stated: once a snapshot file is written, no later step of the
\* pipeline changes or replaces it.
C20_SnapshotImmutable ==
    [][\A f \in DOMAIN snapshots :
          snapshots[f].state = "ok" => snapshots'[f] = snapshots[f]]_vars

\* ------------------------------------------------------------------------
\* Properties of the snapshot store and the comparison
\* ------------------------------------------------------------------------
\* C21, as stated: what get_previous_day_data(s, d + 1) returns for a seed
\* s that validate_keyword accepts is None or the snapshot stored for seed
\* s with execution date d: it has seed s, date d, and the aggregates of
\* its per-query suggestion map.
C21_PreviousDayRoundTrip ==
    \A s \in keywords : \A d \in 0..MaxDay :
        LET previous == get_previous_day_data(s, d + 1)
        IN  (validate_keyword(s).valid /\ previous.loaded) =>
                /\ previous.data.main_keyword = s
                /\ previous.data.execution_date = d
                /\ previous.data =
                       create_keyword_data(s, previous.data.query_results, d)

\* the suggestion strings of a snapshot: its suggestions without the
\* surrounding whitespace, the blank ones left out
SuggestionStrings(snapshot) ==
    {Strip(t, Whitespace) :
        t \in UNION {Range(snapshot.query_results[q]) :
                        q \in DOMAIN snapshot.query_results}} \ {<<>>}

\* a list in strictly ascending order (so without duplicates)
Ascending(list) == \A k \in 1..(Len(list) - 1) : StrLess(list[k], list[k + 1])

\* C22: for every pair of snapshots, compare_keyword_data returns
\* new = current - previous, disappeared = previous - current and
\* stable = current /\ previous of the snapshots' suggestion strings; the
\* three lists are pairwise disjoint, duplicate-free and sorted ascending,
\* new_count + stable_count = total_current and
\* disappeared_count + stable_count = total_previous.
C22_DiffIsSetAlgebra ==
    cmp_done =>
        LET cur  == SuggestionStrings(cmp_current)
            prev == SuggestionStrings(cmp_previous)
            new  == cmp_result.new_keywords
            gone == cmp_result.disappeared_keywords
            kept == cmp_result.stable_keywords
        IN  /\ Range(new) = cur \ prev
            /\ Range(gone) = prev \ cur
            /\ Range(kept) = cur \cap prev
            /\ Range(new) \cap Range(gone) = {}
            /\ Range(new) \cap Range(kept) = {}
            /\ Range(gone) \cap Range(kept) = {}
            /\ Ascending(new) /\ Ascending(gone) /\ Ascending(kept)
            /\ cmp_result.new_count = Len(new)
            /\ cmp_result.disappeared_count = Len(gone)
            /\ cmp_result.stable_count = Len(kept)
            /\ cmp_result.new_count + cmp_result.stable_count = cmp_result.total_current
            /\ cmp_result.disappeared_count + cmp_result.stable_count
                   = cmp_result.total_previous
            /\ cmp_result.total_current = Cardinality(cur)
            /\ cmp_result.total_previous = Cardinality(prev)

\* two snapshots have been compared whose difference has several new
\* keywords, a disappeared one and a stable one
C22_Witness ==
    /\ cmp_done
    /\ cmp_result.new_count >= 2
    /\ cmp_result.disappeared_count >= 1
    /\ cmp_result.stable_count >= 1

\* C23: comparing a snapshot with itself yields no new keyword, no
\* disappeared keyword, all its suggestion strings as stable keywords and
\* a change rate of 0.
C23_SelfComparisonIsStable ==
    (cmp_done /\ cmp_current = cmp_previous) =>
        /\ cmp_result.new_keywords = <<>>
        /\ cmp_result.disappeared_keywords = <<>>
        /\ Range(cmp_result.stable_keywords) = SuggestionStrings(cmp_current)
        /\ cmp_result.stable_count = Cardinality(SuggestionStrings(cmp_current))
        /\ cmp_result.change_rate = 0

\* a snapshot with several suggestion strings has been compared with itself
C23_Witness ==
    /\ cmp_done
    /\ cmp_current = cmp_previous
    /\ cmp_result.stable_count >= 2

\* the sign of an integer
Sign(x) == IF x > 0 THEN 1 ELSE IF x < 0 THEN 0 - 1 ELSE 0

\* C24, as stated: the change rate is 0 when the previous set is empty;
\* otherwise its sign is the sign of (new - disappeared), and it is 0 when
\* the two counts are equal.
C24_RateSignIsDifferenceSign ==
    rate_done =>
        IF rate_args[3] = 0
        THEN rate_result = 0
        ELSE Sign(rate_result) = Sign(rate_args[1] - rate_args[2])

\* C24, amended: the change rate is 0 when the previous set is empty;
\* otherwise it is 100 * (new - disappeared) / total_previous rounded to
\* two decimals: 0 when the two counts are equal, never of the sign
\* opposite to (new - disappeared), and of the same sign whenever
\* |new - disappeared| * 20000 > total_previous.
C24_RateSignUpToRounding ==
    rate_done =>
        LET difference == rate_args[1] - rate_args[2]
            magnitude  == IF difference < 0 THEN 0 - difference ELSE difference
        IN  IF rate_args[3] = 0
            THEN rate_result = 0
            ELSE /\ difference = 0 => rate_result = 0
                 /\ Sign(rate_result) \in {0, Sign(difference)}
                 /\ magnitude * 20000 > rate_args[3] =>
                        Sign(rate_result) = Sign(difference)

\* the change rate of fewer new than disappeared keywords has been computed
C24_Witness ==
    /\ rate_done
    /\ rate_args[3] > 0
    /\ rate_args[1] < rate_args[2]
    /\ rate_result < 0

\* ------------------------------------------------------------------------
\* Properties of the query generator (checked under SpecGenerate)
\* ------------------------------------------------------------------------
\* the four axes: letters of width 1 or 2, after or before the keyword
Axes == {1, 2} \X {"suffix", "prefix"}

\* the a-z strings of a width
LettersOfWidth(w) ==
    IF w = 1 THEN {<<x>> : x \in Range(ascii_lowercase)}
    ELSE {<<x, y>> : x \in Range(ascii_lowercase), y \in Range(ascii_lowercase)}

\* the queries of an axis for a seed
AxisQueries(seed, axis) ==
    {IF axis[2] = "suffix" THEN seed \o <<" ">> \o l ELSE l \o <<" ">> \o seed :
        l \in LettersOfWidth(axis[1])}

\* the bare seed and the queries of a set of axes
QueriesOfAxes(seed, axes) == {seed} \cup UNION {AxisQueries(seed, ax) : ax \in axes}

\* C25: with all four axes enabled generate_all_queries builds
\* 1 + 52 + 1352 = 1405 queries before deduplication: the bare seed, 26
\* single-letter suffix and 26 prefix queries, 676 double-letter suffix
\* and 676 prefix queries; whatever the toggles, the list returned holds
\* the bare seed, has no duplicate, is sorted ascending and holds the
\* queries built.
C25_AllAxesBuild1405 ==
    gen_called =>
        /\ gen_seed \in Range(gen_result)
        /\ Ascending(gen_result)
        /\ Range(gen_result) = Range(gen_queries)
        /\ gen_settings = DefaultSettings =>
               /\ Len(gen_queries) = 1405
               /\ 1 + 52 + 1352 = 1405
               /\ \A ax \in Axes :
                      Cardinality(AxisQueries(gen_seed, ax))
                          = (IF ax[1] = 1 THEN 26 ELSE 676)
               /\ Range(gen_queries) = QueriesOfAxes(gen_seed, Axes)

\* all axes were enabled and the deduplication has dropped a query
C25_Witness ==
    /\ gen_called
    /\ gen_settings = DefaultSettings
    /\ Len(gen_queries) = 1405
    /\ Len(gen_result) < Len(gen_queries)

\* the queries returned under the settings cfg are the bare seed and the
\* queries of the given axes
Returns(seed, cfg, axes) ==
    Range(generate_all_queries(seed, cfg)) = QueriesOfAxes(seed, axes)

SelectedAxes(cfg) ==
    {ax \in Axes :
        /\ IF ax[1] = 1 THEN cfg.include_single_letters ELSE cfg.include_double_letters
        /\ IF ax[2] = "suffix" THEN cfg.include_suffix ELSE cfg.include_prefix}

C30_StatisticsTotal ==
    stats_called =>
        /\ gen_stats.total = gen_stats.base_query + gen_stats.single_letter_suffix
                                + gen_stats.single_letter_prefix
                                + gen_stats.double_letter_suffix
                                + gen_stats.double_letter_prefix
        /\ gen_called => gen_stats.total = Len(gen_queries)
        /\ gen_settings = DefaultSettings => gen_stats.total = 1405
        /\ SelectedAxes(gen_settings) = {} => gen_stats.total = 1

\* ------------------------------------------------------------------------
\* Properties of the request counters (checked under SpecCounters)
\* ------------------------------------------------------------------------
\* C27, as stated: when every search_suggestions call has returned,
\* total_requests is the number of search_suggestions calls made and is
\* successful_requests + failed_requests, also when several pool workers
\* call search_suggestions concurrently.
C27_CountersLoseNothing ==
    (\A w \in Workers : spc[w] = "idle") =>
        /\ stats.total_requests = ncalls
        /\ stats.total_requests = stats.successful_requests + stats.failed_requests

\* ------------------------------------------------------------------------
\* Recovery of the delay window (checked under FairSpecDelay)
\* ------------------------------------------------------------------------
\* on_failure has just widened the delay window beyond the configured base
WidenedByFailure ==
    /\ dlast.op = "on_failure"
    /\ \/ current_delay[1] > base_delay[1]
       \/ current_delay[2] > base_delay[2]

\* C28, as stated: after on_failure has widened the delay window, the
\* on_success calls that follow the last failure bring the window back to
\* exactly the configured base (min, max).
C28_SuccessesRestoreBase == WidenedByFailure ~> (current_delay = base_delay)

\* ------------------------------------------------------------------------
\* Snapshot files of distinct seeds (checked under SpecRun)
\* ------------------------------------------------------------------------
\* C29, as stated: when a snapshot saved for seed s2 on day d is on disk,
\* the file of any other seed s1 for that day is a different file, and
\* get_previous_day_data(s1, d + 1) does not return the snapshot of s2
\* (s1 and s2 being seeds that validate_keyword accepts).
C29_SeedsNeverShareFile ==
    \A s1 \in keywords : \A s2 \in keywords : \A d \in 0..MaxDay :
        (/\ s1 # s2
         /\ validate_keyword(s1).valid /\ validate_keyword(s2).valid
         /\ snapshots[FileKey(d, s2)].state = "ok"
         /\ snapshots[FileKey(d, s2)].metadata.main_keyword = s2)
        => /\ FileKey(d, s1) # FileKey(d, s2)
           /\ LET previous == get_previous_day_data(s1, d + 1)
              IN  ~(previous.loaded /\ previous.data.main_keyword = s2)
====
